---------------------------- MODULE Spec2Model ----------------------------
(***************************************************************************)
(* Model of the service registry of go-tenant-service:                     *)
(*   internal/service  ServiceRegistry (health table, fallback chain)      *)
(*   internal/domain   ServiceConfig, ServiceEndpoint, ServiceStatus       *)
(* Source lines refer to                                                   *)
(*   src/internal/repository/service_config_repository.go                  *)
(* which holds the repository, domain and service packages.                *)
(*                                                                         *)
(* Every registry method takes its mutex for its whole body                *)
(* (statusMutex.Lock / RLock with defer Unlock), so each call is one       *)
(* atomic action in the sequential specifications; SpecThreads and         *)
(* SpecCursorThreads model the methods statement by statement under the    *)
(* two mutexes.  time.Now() values are kept only as Zero / Stamped.        *)
(* The Timeout and Headers fields of an endpoint, and the ID, Metadata,    *)
(* CreatedAt and UpdatedAt fields of a config, are read by no registry     *)
(* method and are left out.                                                *)
(***************************************************************************)
EXTENDS Integers, Sequences, FiniteSets, TLC

VARIABLES
    healthStatus,   \* ServiceRegistry.healthStatus: key string -> ServiceStatus
    repo,           \* collection service_configs: <<tenantId, serviceName>> -> ServiceConfig
    streak,         \* history: <<tenantId, serviceName, url>> -> failure reports since the last reset
    last,           \* history: the most recent call, its arguments, the table before it, its result
    defaults,       \* collection default_service_configs: serviceName -> DefaultServiceConfig
    loadBalanceIdx, \* ServiceRegistry.loadBalanceIdx: key string -> round-robin cursor
    window,         \* history: the candidate list and the picks of the current run of round-robin calls
    threads,        \* goroutines inside a registry method: thread -> call, position, locals
    statusMutex,    \* ServiceRegistry.statusMutex: the writer and the readers holding it
    lbMutex,        \* ServiceRegistry.lbMutex: the thread holding it
    committed,      \* history: the health tables left by the writers so far
    held            \* the ServiceStatus values callers hold, and the record each shares storage with

threadVars == <<threads, statusMutex, lbMutex, committed>>

vars == <<healthStatus, repo, streak, last, defaults, loadBalanceIdx, window,
          threadVars, held>>

\* no thread
NoThread == "none"

\* a sync.RWMutex nobody holds
Unlocked == [writer |-> NoThread, readers |-> {}]

\* no goroutine is inside a registry method and no caller holds a value
Quiescent ==
    /\ threads = <<>>
    /\ statusMutex = Unlocked
    /\ lbMutex = NoThread
    /\ committed = {}
    /\ held = <<>>

-----------------------------------------------------------------------------
(* Bounds of the model *)

\* Failure reports on one endpoint are followed up to this streak length.
MaxFails == 4

\* Longest fallbackChain among the configs handed to ResolveFallbackChain.
MaxChain == 1

-----------------------------------------------------------------------------
(* Program constants *)

\* domain.DefaultFailThreshold (line 482)
DefaultFailThreshold == 3

\* the literal of `if status.ConsecutiveFails >= 3` (line 846)
UnhealthyAfter == 3

LoadBalanceRoundRobin == "round-robin"

\* time.Time zero value, and any value returned by time.Now()
Zero == "zero"
Stamped == "now"

\* a nil *domain.ServiceEndpoint
NoEndpoint == [url |-> "<nil>", priority |-> 0, weight |-> 0, isActive |-> FALSE]

\* a nil error
NoError == ""

-----------------------------------------------------------------------------
(* Input sets *)

\* endpoint URLs of the configs handed to ResolveFallbackChain
URLs == {"A", "B"}

\* the endpoints whose health is reported and read under Spec
Triples == {<<"t1", "auth", "A">>, <<"t1", "auth", "B">>, <<"t2", "auth", "A">>}

\* the endpoints whose health is reported under SpecResolve
ResolveTriples == {<<"t1", "auth", "A">>, <<"t1", "auth", "B">>}

\* HealthCheckConfig.FailThreshold values stored for (t1, auth); 0 is the
\* Go zero value of a field that was never set
FailThresholds == {0, 2, 4}

Endpoint(url, priority, isActive) ==
    [url |-> url, priority |-> priority, weight |-> 1, isActive |-> isActive]

ServiceConfig(tenantID, serviceName, primary, chain, defaultURL, failThreshold) ==
    [tenantID |-> tenantID, serviceName |-> serviceName,
     primaryEndpoint |-> primary, fallbackChain |-> chain,
     defaultServiceURL |-> defaultURL,
     healthCheck |-> [failThreshold |-> failThreshold],
     loadBalanceStrategy |-> LoadBalanceRoundRobin,
     isActive |-> TRUE]

\* all fallback chains of length 0..MaxChain; the i-th entry has priority i
RECURSIVE ChainsOfLen(_)
ChainsOfLen(n) ==
    IF n = 0 THEN {<<>>}
    ELSE {Append(c, Endpoint(u, n, a)) : c \in ChainsOfLen(n - 1), u \in URLs, a \in BOOLEAN}

Chains == UNION {ChainsOfLen(n) : n \in 0..MaxChain}

\* the configs handed to ResolveFallbackChain: primary A, any chain over URLs
ResolveConfigs ==
    {ServiceConfig("t1", "auth", Endpoint("A", 0, a), c, d, 0) :
        a \in BOOLEAN, c \in Chains, d \in {"", "D"}}

\* the stored configs the model starts from: one config for (t1, auth)
InitRepos ==
    {[p \in {<<"t1", "auth">>} |->
        ServiceConfig("t1", "auth", Endpoint("A", 0, TRUE),
                      <<Endpoint("B", 1, TRUE)>>, "D", ft)] : ft \in FailThresholds}

-----------------------------------------------------------------------------
(* Health table *)

\* fmt.Sprintf("%s:%s:%s", tenantID, serviceName, url)
StatusKey(tenantID, serviceName, url) ==
    tenantID \o ":" \o serviceName \o ":" \o url

\* &domain.ServiceStatus{...} of UpdateHealthStatus for a key with no record
NewStatus(tenantID, serviceName, url, healthy) ==
    [tenantID |-> tenantID, serviceName |-> serviceName, endpointURL |-> url,
     isHealthy |-> healthy, lastChecked |-> Stamped, lastSuccessful |-> Zero,
     lastFailure |-> Zero, consecutiveFails |-> 0, lastError |-> ""]

\* UpdatedStatus that lets an unhealthy record read healthy again at the
\* next failure report (a half-open retry)
UpdatedStatus_HalfOpen(status, healthy) ==
    IF healthy
    THEN [status EXCEPT !.lastChecked = Stamped, !.isHealthy = TRUE,
                        !.consecutiveFails = 0, !.lastSuccessful = Stamped]
    ELSE [status EXCEPT !.lastChecked = Stamped,
                        !.consecutiveFails = @ + 1,
                        !.lastFailure = Stamped,
                        !.lastError = "health check failed",
                        !.isHealthy = ~@ /\ status.consecutiveFails + 1 >= UnhealthyAfter]

\* UpdatedStatus with the threshold test of lines 845-847 left out
UpdatedStatus_NoThreshold(status, healthy) ==
    IF healthy
    THEN [status EXCEPT !.lastChecked = Stamped, !.isHealthy = TRUE,
                        !.consecutiveFails = 0, !.lastSuccessful = Stamped]
    ELSE [status EXCEPT !.lastChecked = Stamped,
                        !.consecutiveFails = @ + 1,
                        !.lastFailure = Stamped,
                        !.lastError = "health check failed"]

\* UpdatedStatus with the reset of the counter on success left out
UpdatedStatus_KeepsCount(status, healthy) ==
    IF healthy
    THEN [status EXCEPT !.lastChecked = Stamped, !.isHealthy = TRUE,
                        !.lastSuccessful = Stamped]
    ELSE [status EXCEPT !.lastChecked = Stamped,
                        !.consecutiveFails = @ + 1,
                        !.lastFailure = Stamped,
                        !.lastError = "health check failed",
                        !.isHealthy = IF status.consecutiveFails + 1 >= UnhealthyAfter
                                      THEN FALSE ELSE @]

\* the update of an existing record, lines 835-849
UpdatedStatus(status, healthy) ==
    IF healthy
    THEN [status EXCEPT !.lastChecked = Stamped, !.isHealthy = TRUE,
                        !.consecutiveFails = 0, !.lastSuccessful = Stamped]
    ELSE [status EXCEPT !.lastChecked = Stamped,
                        !.consecutiveFails = @ + 1,
                        !.lastFailure = Stamped,
                        !.lastError = "health check failed",
                        !.isHealthy = IF status.consecutiveFails + 1 >= UnhealthyAfter
                                      THEN FALSE ELSE @]

\* the map after s.healthStatus[key] = value
MapPut(table, key, value) ==
    [k \in DOMAIN table \cup {key} |-> IF k = key THEN value ELSE table[k]]

\* the map after delete(s.healthStatus, key)
MapDelete(table, key) ==
    [k \in DOMAIN table \ {key} |-> table[k]]

\* the table after UpdateHealthStatus(tenantID, serviceName, url, healthy)
UpdateHealthTable(table, tenantID, serviceName, url, healthy) ==
    LET key == StatusKey(tenantID, serviceName, url) IN
    IF key \notin DOMAIN table
    THEN MapPut(table, key, NewStatus(tenantID, serviceName, url, healthy))
    ELSE MapPut(table, key, UpdatedStatus(table[key], healthy))

\* InvalidatedTable evicting every record instead of one
InvalidatedTable_ClearsAll(table, tenantID, serviceName, url) ==
    <<>>

\* the table after InvalidateCache(tenantID, serviceName, url)
InvalidatedTable(table, tenantID, serviceName, url) ==
    MapDelete(table, StatusKey(tenantID, serviceName, url))

\* the table after InvalidateAllCache(): make(map[string]*domain.ServiceStatus)
EmptyTable == <<>>

\* isEndpointHealthy treating a key with no record as unhealthy
isEndpointHealthy_Pessimistic(table, tenantID, serviceName, url) ==
    LET key == StatusKey(tenantID, serviceName, url) IN
    IF key \notin DOMAIN table THEN FALSE ELSE table[key].isHealthy

\* isEndpointHealthy's return value
isEndpointHealthy(table, tenantID, serviceName, url) ==
    LET key == StatusKey(tenantID, serviceName, url) IN
    IF key \notin DOMAIN table THEN TRUE ELSE table[key].isHealthy

\* GetHealthStatus's return value (a fresh record, or a copy of the stored one)
GetHealthStatus(table, tenantID, serviceName, url) ==
    LET key == StatusKey(tenantID, serviceName, url) IN
    IF key \notin DOMAIN table
    THEN [tenantID |-> tenantID, serviceName |-> serviceName, endpointURL |-> url,
          isHealthy |-> TRUE, lastChecked |-> Stamped, lastSuccessful |-> Zero,
          lastFailure |-> Zero, consecutiveFails |-> 0, lastError |-> ""]
    ELSE table[key]

\* every order in which `for _, status := range s.healthStatus` can visit the map
RECURSIVE Orders(_)
Orders(keys) ==
    IF keys = {} THEN {<<>>}
    ELSE UNION {{<<k>> \o rest : rest \in Orders(keys \ {k})} : k \in keys}

\* GetAllHealthStatus's return value when the map is visited in `order`
GetAllHealthStatus(table, order) ==
    [i \in 1..Len(order) |-> table[order[i]]]

-----------------------------------------------------------------------------
(* History *)

NoResult == "<none>"

Call(op, tenantID, serviceName, url, healthy, config, before, result, err) ==
    [op |-> op, tenantID |-> tenantID, serviceName |-> serviceName, url |-> url,
     healthy |-> healthy, config |-> config, before |-> before,
     result |-> result, err |-> err]

NoConfig == "<none>"

\* no run of round-robin calls is under way
NoWindow == [key |-> "", candidates |-> <<>>, picks |-> <<>>]

StreakOf(s, triple) == IF triple \in DOMAIN s THEN s[triple] ELSE 0

-----------------------------------------------------------------------------
(* Values handed to callers. A held value is a ServiceStatus together with
   the key of the table record it shares storage with: NoKey for a copy. *)

NoKey == ""

Ref(value, sharesWith) == [value |-> value, sharesWith |-> sharesWith]

\* GetHealthStatus that returns the pointer stored in the map
GetHealthStatusRef_ReturnsRecord(table, tenantID, serviceName, url) ==
    Ref(GetHealthStatus(table, tenantID, serviceName, url),
        IF StatusKey(tenantID, serviceName, url) \in DOMAIN table
        THEN StatusKey(tenantID, serviceName, url) ELSE NoKey)

\* the pointer GetHealthStatus returns: &domain.ServiceStatus{...} for an
\* unknown key, &statusCopy (statusCopy := *status) otherwise
GetHealthStatusRef(table, tenantID, serviceName, url) ==
    Ref(GetHealthStatus(table, tenantID, serviceName, url), NoKey)

\* the pointers GetAllHealthStatus returns: &statusCopy for every record
GetAllHealthStatusRefs(table, order) ==
    [i \in 1..Len(order) |-> Ref(table[order[i]], NoKey)]

\* the held values after the record of `key`, present before the call, was
\* updated in place (status.X = ... through the stored pointer)
HeldAfterUpdate(holders, before, after, key) ==
    [i \in 1..Len(holders) |->
        IF holders[i].sharesWith = key /\ key \in DOMAIN before
        THEN Ref(after[key], key) ELSE holders[i]]

\* the held values after the map dropped the pointers of `keys`: the
\* objects live on with their holders, the table no longer reaches them
HeldAfterDelete(holders, keys) ==
    [i \in 1..Len(holders) |->
        IF holders[i].sharesWith \in keys THEN Ref(holders[i].value, NoKey)
        ELSE holders[i]]

-----------------------------------------------------------------------------
(* Actions of the health table *)

Init ==
    /\ healthStatus = <<>>
    /\ repo \in InitRepos
    /\ streak = <<>>
    /\ last = Call("new", "", "", "", FALSE, NoConfig, <<>>, NoResult, NoError)
    /\ defaults = <<>>
    /\ loadBalanceIdx = <<>>
    /\ window = NoWindow
    /\ Quiescent

UpdateHealthStatus(tenantID, serviceName, url, healthy) ==
    LET triple == <<tenantID, serviceName, url>> IN
    /\ healthy \/ StreakOf(streak, triple) < MaxFails
    /\ healthStatus' = UpdateHealthTable(healthStatus, tenantID, serviceName, url, healthy)
    /\ streak' = IF healthy
                 THEN MapDelete(streak, triple)
                 ELSE MapPut(streak, triple, StreakOf(streak, triple) + 1)
    /\ last' = Call("UpdateHealthStatus", tenantID, serviceName, url, healthy,
                    NoConfig, healthStatus, NoResult, NoError)
    /\ held' = HeldAfterUpdate(held, healthStatus, healthStatus',
                               StatusKey(tenantID, serviceName, url))
    /\ UNCHANGED <<repo, defaults, loadBalanceIdx, window, threadVars>>

IsEndpointHealthyCall(tenantID, serviceName, url) ==
    /\ last' = Call("isEndpointHealthy", tenantID, serviceName, url, FALSE,
                    NoConfig, healthStatus,
                    isEndpointHealthy(healthStatus, tenantID, serviceName, url), NoError)
    /\ UNCHANGED <<healthStatus, repo, streak, defaults, loadBalanceIdx, window, threadVars, held>>

\* GetHealthStatus that stores the default record it builds for an unknown key
TableAfterGetHealthStatus_StoresDefault(table, tenantID, serviceName, url) ==
    IF StatusKey(tenantID, serviceName, url) \in DOMAIN table THEN table
    ELSE MapPut(table, StatusKey(tenantID, serviceName, url),
                GetHealthStatus(table, tenantID, serviceName, url))

\* the health table GetHealthStatus leaves: lines 871-888 hold the read lock
\* and assign nothing to s.healthStatus, also when the key is unknown
TableAfterGetHealthStatus(table, tenantID, serviceName, url) == table

GetHealthStatusCall(tenantID, serviceName, url) ==
    /\ healthStatus' = TableAfterGetHealthStatus(healthStatus, tenantID, serviceName, url)
    /\ last' = Call("GetHealthStatus", tenantID, serviceName, url, FALSE,
                    NoConfig, healthStatus,
                    GetHealthStatus(healthStatus, tenantID, serviceName, url), NoError)
    /\ UNCHANGED <<repo, streak, defaults, loadBalanceIdx, window, threadVars, held>>

GetAllHealthStatusCall ==
    /\ \E order \in Orders(DOMAIN healthStatus) :
          last' = Call("GetAllHealthStatus", "", "", "", FALSE, NoConfig, healthStatus,
                       GetAllHealthStatus(healthStatus, order), NoError)
    /\ UNCHANGED <<healthStatus, repo, streak, defaults, loadBalanceIdx, window, threadVars, held>>

InvalidateCache(tenantID, serviceName, url) ==
    /\ healthStatus' = InvalidatedTable(healthStatus, tenantID, serviceName, url)
    /\ streak' = MapDelete(streak, <<tenantID, serviceName, url>>)
    /\ last' = Call("InvalidateCache", tenantID, serviceName, url, FALSE,
                    NoConfig, healthStatus, NoResult, NoError)
    /\ held' = HeldAfterDelete(held, {StatusKey(tenantID, serviceName, url)})
    /\ UNCHANGED <<repo, defaults, loadBalanceIdx, window, threadVars>>

InvalidateAllCache ==
    /\ healthStatus' = EmptyTable
    /\ streak' = <<>>
    /\ last' = Call("InvalidateAllCache", "", "", "", FALSE,
                    NoConfig, healthStatus, NoResult, NoError)
    /\ held' = HeldAfterDelete(held, DOMAIN healthStatus)
    /\ UNCHANGED <<repo, defaults, loadBalanceIdx, window, threadVars>>

Next ==
    \/ \E k \in Triples, healthy \in BOOLEAN : UpdateHealthStatus(k[1], k[2], k[3], healthy)
    \/ \E k \in Triples : IsEndpointHealthyCall(k[1], k[2], k[3])
    \/ \E k \in Triples : GetHealthStatusCall(k[1], k[2], k[3])
    \/ GetAllHealthStatusCall
    \/ \E k \in Triples : InvalidateCache(k[1], k[2], k[3])
    \/ InvalidateAllCache

Spec == Init /\ [][Next]_vars

-----------------------------------------------------------------------------
(* Fallback chain resolution *)

\* a FallbackChainResult; UsedEndpoint is NoEndpoint when the pointer is nil
FallbackChainResult(config, resolvedURL, usedEndpoint, isDefault, success, error, attempted) ==
    [tenantID |-> config.tenantID, serviceName |-> config.serviceName,
     resolvedURL |-> resolvedURL, usedEndpoint |-> usedEndpoint,
     isDefault |-> isDefault, success |-> success, error |-> error,
     attemptedURLs |-> attempted]

\* Usable without the check of the health table
Usable_ActiveOnly(table, config, endpoint) == endpoint.isActive

\* Usable without the check of the administrative flag
Usable_HealthOnly(table, config, endpoint) ==
    isEndpointHealthy(table, config.tenantID, config.serviceName, endpoint.url)

\* the condition of lines 780 and 791
Usable(table, config, endpoint) ==
    endpoint.isActive
    /\ isEndpointHealthy(table, config.tenantID, config.serviceName, endpoint.url)

\* LastResort without the check for an empty defaultServiceURL
LastResort_AlwaysDefault(config, attempted) ==
    [result |-> FallbackChainResult(config, config.defaultServiceURL, NoEndpoint,
                                    TRUE, TRUE, "", attempted),
     err |-> NoError]

\* lines 801-811: the chain is exhausted
LastResort(config, attempted) ==
    IF config.defaultServiceURL # ""
    THEN [result |-> FallbackChainResult(config, config.defaultServiceURL, NoEndpoint,
                                         TRUE, TRUE, "", attempted),
          err |-> NoError]
    ELSE [result |-> FallbackChainResult(config, "", NoEndpoint, FALSE, FALSE,
                         "all endpoints in fallback chain are unhealthy", attempted),
          err |-> "no healthy endpoints available"]

\* lines 790-799: the loop over config.FallbackChain from index i on
RECURSIVE WalkChain(_, _, _, _)
WalkChain(table, config, i, attempted) ==
    IF i > Len(config.fallbackChain)
    THEN LastResort(config, attempted)
    ELSE LET endpoint == config.fallbackChain[i] IN
         IF Usable(table, config, endpoint)
         THEN [result |-> FallbackChainResult(config, endpoint.url, endpoint,
                                              FALSE, TRUE, "", attempted),
               err |-> NoError]
         ELSE WalkChain(table, config, i + 1, Append(attempted, endpoint.url))

\* ResolveFallbackChain trying the primary endpoint after the fallback chain
ResolveFallbackChain_PrimaryLast(table, config) ==
    WalkChain(table,
              [config EXCEPT !.fallbackChain = Append(@, config.primaryEndpoint)],
              1, <<>>)

\* ResolveFallbackChain's return values (result, error)
ResolveFallbackChain(table, config) ==
    IF Usable(table, config, config.primaryEndpoint)
    THEN [result |-> FallbackChainResult(config, config.primaryEndpoint.url,
                                         config.primaryEndpoint, FALSE, TRUE, "", <<>>),
          err |-> NoError]
    ELSE WalkChain(table, config, 1, <<config.primaryEndpoint.url>>)

ResolveFallbackChainCall(config) ==
    /\ LET r == ResolveFallbackChain(healthStatus, config) IN
       last' = Call("ResolveFallbackChain", config.tenantID, config.serviceName, "",
                    FALSE, config, healthStatus, r.result, r.err)
    /\ UNCHANGED <<healthStatus, repo, streak, defaults, loadBalanceIdx, window, threadVars, held>>

InitResolve ==
    /\ healthStatus = <<>>
    /\ repo = <<>>
    /\ streak = <<>>
    /\ last = Call("new", "", "", "", FALSE, NoConfig, <<>>, NoResult, NoError)
    /\ defaults = <<>>
    /\ loadBalanceIdx = <<>>
    /\ window = NoWindow
    /\ Quiescent

NextResolve ==
    \/ \E k \in ResolveTriples, healthy \in BOOLEAN :
          UpdateHealthStatus(k[1], k[2], k[3], healthy)
    \/ \E k \in ResolveTriples : InvalidateCache(k[1], k[2], k[3])
    \/ \E config \in ResolveConfigs : ResolveFallbackChainCall(config)

SpecResolve == InitResolve /\ [][NextResolve]_vars

-----------------------------------------------------------------------------
(* Properties of the health table, checked under Spec *)

\* the failThreshold the stored config of (tenantID, serviceName) asks for:
\* its HealthCheck.FailThreshold, or DefaultFailThreshold when none is set
ConfiguredThreshold(tenantID, serviceName) ==
    IF <<tenantID, serviceName>> \in DOMAIN repo
       /\ repo[<<tenantID, serviceName>>].healthCheck.failThreshold > 0
    THEN repo[<<tenantID, serviceName>>].healthCheck.failThreshold
    ELSE DefaultFailThreshold

LastKey == StatusKey(last.tenantID, last.serviceName, last.url)
LastTriple == <<last.tenantID, last.serviceName, last.url>>

\* C1: where the threshold is the default 3, an endpoint with fewer than 3
\* failure reports since it last read as healthy by a reset (no record, an
\* invalidation, a success report) still reads healthy, and with exactly 3
\* it reads unhealthy.
C1_Hysteresis ==
    \A k \in Triples :
        ConfiguredThreshold(k[1], k[2]) = DefaultFailThreshold =>
            /\ StreakOf(streak, k) < DefaultFailThreshold
                  => isEndpointHealthy(healthStatus, k[1], k[2], k[3])
            /\ StreakOf(streak, k) = DefaultFailThreshold
                  => ~isEndpointHealthy(healthStatus, k[1], k[2], k[3])

\* C2: right after a success report the key has a record with
\* consecutiveFails = 0 and isHealthy = TRUE, whatever was reported before.
C2_SuccessResets ==
    (last.op = "UpdateHealthStatus" /\ last.healthy) =>
        /\ LastKey \in DOMAIN healthStatus
        /\ healthStatus[LastKey].consecutiveFails = 0
        /\ healthStatus[LastKey].isHealthy = TRUE

\* C2 witness: a success report on a record that was unhealthy after 3 or
\* more counted failures.
C2_Witness ==
    /\ last.op = "UpdateHealthStatus" /\ last.healthy
    /\ LastKey \in DOMAIN last.before
    /\ last.before[LastKey].consecutiveFails >= 3
    /\ ~last.before[LastKey].isHealthy
    /\ healthStatus[LastKey].consecutiveFails = 0

\* C3: consecutiveFails of every key, read with an absent record as 0, is the
\* number of failure reports since the key had no record or a success report.
C3_CountsEveryFailure ==
    \A k \in Triples :
        GetHealthStatus(healthStatus, k[1], k[2], k[3]).consecutiveFails
            = StreakOf(streak, k)

\* C4: a failure report on a record that reads healthy flips it to unhealthy
\* exactly when the failures since the last success reach the failThreshold
\* of the stored config (3 when none is configured).
C4_ConfiguredThreshold ==
    (/\ last.op = "UpdateHealthStatus" /\ ~last.healthy
     /\ LastKey \in DOMAIN last.before
     /\ last.before[LastKey].isHealthy) =>
        (healthStatus[LastKey].isHealthy = FALSE
            <=> StreakOf(streak, LastTriple)
                   >= ConfiguredThreshold(last.tenantID, last.serviceName))

\* C5: isEndpointHealthy returns TRUE for a key with no record and the stored
\* isHealthy otherwise; GetHealthStatus returns a record that is healthy with
\* consecutiveFails = 0 for a key with no record and carries the stored
\* isHealthy otherwise; neither returns an error.
C5_OptimisticReads ==
    /\ last.op = "isEndpointHealthy" =>
          /\ last.err = NoError
          /\ last.result = (IF LastKey \in DOMAIN last.before
                            THEN last.before[LastKey].isHealthy ELSE TRUE)
    /\ last.op = "GetHealthStatus" =>
          /\ last.err = NoError
          /\ IF LastKey \in DOMAIN last.before
             THEN last.result.isHealthy = last.before[LastKey].isHealthy
             ELSE last.result.isHealthy = TRUE /\ last.result.consecutiveFails = 0

\* C5 witness: isEndpointHealthy answered for a key with no record while
\* another key has an unhealthy one.
C5_Witness ==
    /\ last.op = "isEndpointHealthy"
    /\ LastKey \notin DOMAIN last.before
    /\ last.result = TRUE
    /\ \E key \in DOMAIN last.before : ~last.before[key].isHealthy

\* C35: every record of the health table has consecutiveFails >= 0, and a
\* record with consecutiveFails >= 3 has isHealthy = FALSE.
C35_CountAndFlagAgree ==
    \A key \in DOMAIN healthStatus :
        /\ healthStatus[key].consecutiveFails >= 0
        /\ healthStatus[key].consecutiveFails >= UnhealthyAfter
              => ~healthStatus[key].isHealthy

\* C35 witness: a record created by a success report has reached the third
\* counted failure.
C35_Witness ==
    /\ last.op = "UpdateHealthStatus" /\ ~last.healthy
    /\ LastKey \in DOMAIN last.before
    /\ last.before[LastKey].isHealthy
    /\ last.before[LastKey].consecutiveFails = UnhealthyAfter - 1
    /\ healthStatus[LastKey].consecutiveFails = UnhealthyAfter
    /\ ~healthStatus[LastKey].isHealthy

\* C6: right after InvalidateCache(key) the key reads healthy with
\* consecutiveFails = 0 and every other key's record is as before; right
\* after InvalidateAllCache every key reads as the optimistic default and
\* GetAllHealthStatus is empty.
C6_InvalidateResets ==
    /\ last.op = "InvalidateCache" =>
          /\ isEndpointHealthy(healthStatus, last.tenantID, last.serviceName, last.url)
          /\ GetHealthStatus(healthStatus, last.tenantID, last.serviceName,
                             last.url).consecutiveFails = 0
          /\ \A k \in Triples \ {LastTriple} :
                LET key == StatusKey(k[1], k[2], k[3]) IN
                /\ key \in DOMAIN healthStatus <=> key \in DOMAIN last.before
                /\ key \in DOMAIN healthStatus => healthStatus[key] = last.before[key]
    /\ last.op = "InvalidateAllCache" =>
          /\ \A k \in Triples :
                /\ isEndpointHealthy(healthStatus, k[1], k[2], k[3])
                /\ GetHealthStatus(healthStatus, k[1], k[2], k[3]).isHealthy
                /\ GetHealthStatus(healthStatus, k[1], k[2], k[3]).consecutiveFails = 0
          /\ \A order \in Orders(DOMAIN healthStatus) :
                GetAllHealthStatus(healthStatus, order) = <<>>

\* C6 witness: InvalidateCache evicted an unhealthy record while another
\* key keeps an unhealthy record.
C6_Witness ==
    /\ last.op = "InvalidateCache"
    /\ LastKey \in DOMAIN last.before
    /\ ~last.before[LastKey].isHealthy
    /\ \E key \in DOMAIN healthStatus : ~healthStatus[key].isHealthy

-----------------------------------------------------------------------------
(* Properties of ResolveFallbackChain, checked under SpecResolve *)

\* the endpoints of a config in walk order: primary, then the fallback chain
WalkOrder(config) == <<config.primaryEndpoint>> \o config.fallbackChain

\* the health table's answer for an endpoint of `config`, read from the table
HealthyInTable(table, config, endpoint) ==
    LET key == StatusKey(config.tenantID, config.serviceName, endpoint.url) IN
    key \notin DOMAIN table \/ table[key].isHealthy

\* the positions in walk order of the endpoints that are active and healthy
Candidates(table, config) ==
    {i \in 1..Len(WalkOrder(config)) :
        /\ WalkOrder(config)[i].isActive
        /\ HealthyInTable(table, config, WalkOrder(config)[i])}

\* the positions in walk order of the active endpoints that are unhealthy
ActiveUnhealthy(table, config) ==
    {i \in 1..Len(WalkOrder(config)) :
        /\ WalkOrder(config)[i].isActive
        /\ ~HealthyInTable(table, config, WalkOrder(config)[i])}

Min(S) == CHOOSE x \in S : \A y \in S : x <= y

\* the call returned `endpoint` as a non-default success
ReturnedEndpoint(call, endpoint) ==
    /\ call.err = NoError
    /\ call.result.success
    /\ ~call.result.isDefault
    /\ call.result.usedEndpoint = endpoint
    /\ call.result.resolvedURL = endpoint.url

\* the call returned the config's defaultServiceURL as a default success
ReturnedDefault(call) ==
    /\ call.err = NoError
    /\ call.result.success
    /\ call.result.isDefault
    /\ call.result.usedEndpoint = NoEndpoint
    /\ call.result.resolvedURL = call.config.defaultServiceURL

\* the call failed: an error, and a result with success = FALSE and a text
ReturnedFailure(call) ==
    /\ call.err # NoError
    /\ ~call.result.success
    /\ call.result.error # ""

\* C7: for a config with an empty fallbackChain, ResolveFallbackChain returns
\* the primary endpoint as a non-default success iff the primary is active
\* and healthy in the table; otherwise its next step is defaultServiceUrl:
\* a default success when that URL is non-empty, a failure when it is empty.
C7_EmptyChain ==
    (last.op = "ResolveFallbackChain" /\ last.config.fallbackChain = <<>>) =>
        LET primary == last.config.primaryEndpoint
            ok == primary.isActive /\ HealthyInTable(healthStatus, last.config, primary)
        IN /\ ReturnedEndpoint(last, primary) <=> ok
           /\ ~ok => IF last.config.defaultServiceURL # ""
                     THEN ReturnedDefault(last)
                     ELSE ReturnedFailure(last)

\* C7 witness: empty chain, the primary active but unhealthy, resolved to the
\* default URL.
C7_Witness ==
    /\ last.op = "ResolveFallbackChain" /\ last.config.fallbackChain = <<>>
    /\ last.config.primaryEndpoint.isActive
    /\ ~HealthyInTable(healthStatus, last.config, last.config.primaryEndpoint)
    /\ last.result.isDefault /\ last.result.resolvedURL = "D"

RECURSIVE SkippedUnhealthy(_, _, _)
SkippedUnhealthy(table, config, n) ==
    IF n = 0 THEN <<>>
    ELSE LET rest == SkippedUnhealthy(table, config, n - 1)
             endpoint == WalkOrder(config)[n]
         IN IF n \in ActiveUnhealthy(table, config)
            THEN Append(rest, endpoint.url) ELSE rest

\* C9: attemptedURLs lists, in walk order, exactly the URLs of the active
\* endpoints passed over as unhealthy before the returned one; an inactive
\* endpoint is never listed.
C9_AttemptedOnlyUnhealthy ==
    last.op = "ResolveFallbackChain" =>
        LET c == Candidates(healthStatus, last.config)
            walked == IF c = {} THEN Len(WalkOrder(last.config)) ELSE Min(c) - 1
        IN last.result.attemptedURLs = SkippedUnhealthy(healthStatus, last.config, walked)

\* C10: when no endpoint is active and healthy, ResolveFallbackChain returns
\* defaultServiceUrl as a success with isDefault = TRUE if it is non-empty;
\* if it is empty it returns an error with a result that has success = FALSE,
\* a non-empty error text and, in attemptedURLs, the URL of every active
\* endpoint it passed over as unhealthy.
C10_LastResort ==
    (last.op = "ResolveFallbackChain" /\ Candidates(healthStatus, last.config) = {}) =>
        IF last.config.defaultServiceURL # ""
        THEN ReturnedDefault(last)
        ELSE /\ ReturnedFailure(last)
             /\ \A i \in ActiveUnhealthy(healthStatus, last.config) :
                   \E j \in 1..Len(last.result.attemptedURLs) :
                       last.result.attemptedURLs[j] = WalkOrder(last.config)[i].url

\* C10 witness: no default URL, the primary inactive and the only fallback
\* active but unhealthy: the call fails and its trace names the fallback.
C10_Witness ==
    /\ last.op = "ResolveFallbackChain"
    /\ last.config.defaultServiceURL = ""
    /\ Candidates(healthStatus, last.config) = {}
    /\ ActiveUnhealthy(healthStatus, last.config) = {2}
    /\ last.err # NoError /\ ~last.result.success
    /\ \E j \in 1..Len(last.result.attemptedURLs) : last.result.attemptedURLs[j] = "B"

-----------------------------------------------------------------------------
(* Load balancing: selectEndpoint and its strategies *)

LoadBalanceRandom == "random"
LoadBalanceWeighted == "weighted"
LoadBalanceLeastConn == "least-conn"

\* lines 507-511: the active entries of chain[i..], in stored order
RECURSIVE ActiveFallbacks(_, _)
ActiveFallbacks(chain, i) ==
    IF i > Len(chain) THEN <<>>
    ELSE (IF chain[i].isActive THEN <<chain[i]>> ELSE <<>>)
            \o ActiveFallbacks(chain, i + 1)

\* GetActiveEndpoints without the check of the primary endpoint's flag
GetActiveEndpoints_PrimaryAlways(config) ==
    <<config.primaryEndpoint>> \o ActiveFallbacks(config.fallbackChain, 1)

\* ServiceConfig.GetActiveEndpoints
GetActiveEndpoints(config) ==
    (IF config.primaryEndpoint.isActive THEN <<config.primaryEndpoint>> ELSE <<>>)
        \o ActiveFallbacks(config.fallbackChain, 1)

\* fmt.Sprintf("%s:%s", tenantID, serviceName)
LBKey(tenantID, serviceName) == tenantID \o ":" \o serviceName

\* s.loadBalanceIdx[key]: the zero value for a key that is not in the map
CursorOf(lbIdx, key) == IF key \in DOMAIN lbIdx THEN lbIdx[key] ELSE 0

\* what a strategy returns: (url, endpoint), and the cursor map it leaves
Selection(url, endpoint, lbIdx) ==
    [url |-> url, endpoint |-> endpoint, loadBalanceIdx |-> lbIdx]

\* the values rand.Intn(n) can return
Intn(n) == 0..(n - 1)

\* roundRobinSelect that stores idx + 1 without taking it modulo the length
roundRobinSelect_NoWrap(lbIdx, tenantID, serviceName, endpoints) ==
    IF Len(endpoints) = 0 THEN Selection("", NoEndpoint, lbIdx)
    ELSE LET key == LBKey(tenantID, serviceName)
             idx == CursorOf(lbIdx, key)
             endpoint == endpoints[(idx % Len(endpoints)) + 1]
         IN Selection(endpoint.url, endpoint, MapPut(lbIdx, key, idx + 1))

\* roundRobinSelect that never writes the advanced cursor back
roundRobinSelect_Stuck(lbIdx, tenantID, serviceName, endpoints) ==
    IF Len(endpoints) = 0 THEN Selection("", NoEndpoint, lbIdx)
    ELSE LET key == LBKey(tenantID, serviceName)
             idx == CursorOf(lbIdx, key)
             endpoint == endpoints[(idx % Len(endpoints)) + 1]
         IN Selection(endpoint.url, endpoint, lbIdx)

\* roundRobinSelect that clamps the cursor to the last index instead of
\* taking it modulo the length
roundRobinSelect_Clamped(lbIdx, tenantID, serviceName, endpoints) ==
    IF Len(endpoints) = 0 THEN Selection("", NoEndpoint, lbIdx)
    ELSE LET key == LBKey(tenantID, serviceName)
             idx == CursorOf(lbIdx, key)
             at == IF idx >= Len(endpoints) THEN Len(endpoints) - 1 ELSE idx
             endpoint == endpoints[at + 1]
         IN Selection(endpoint.url, endpoint,
                      MapPut(lbIdx, key, (idx + 1) % Len(endpoints)))

\* ServiceRegistry.roundRobinSelect
roundRobinSelect(lbIdx, tenantID, serviceName, endpoints) ==
    IF Len(endpoints) = 0 THEN Selection("", NoEndpoint, lbIdx)
    ELSE LET key == LBKey(tenantID, serviceName)
             idx == CursorOf(lbIdx, key)
             endpoint == endpoints[(idx % Len(endpoints)) + 1]
         IN Selection(endpoint.url, endpoint,
                      MapPut(lbIdx, key, (idx + 1) % Len(endpoints)))

\* ServiceRegistry.randomSelect, rand.Intn(len(endpoints)) having returned `draw`
randomSelect(lbIdx, endpoints, draw) ==
    IF Len(endpoints) = 0 THEN Selection("", NoEndpoint, lbIdx)
    ELSE Selection(endpoints[draw + 1].url, endpoints[draw + 1], lbIdx)

\* lines 746-749: the sum of the weights of endpoints[1..n]
RECURSIVE TotalWeight(_, _)
TotalWeight(endpoints, n) ==
    IF n = 0 THEN 0 ELSE TotalWeight(endpoints, n - 1) + endpoints[n].weight

\* the walk with the comparison r <= cumulative
RECURSIVE WeightedWalk_Inclusive(_, _, _, _, _)
WeightedWalk_Inclusive(lbIdx, endpoints, r, i, cumulative) ==
    IF i > Len(endpoints)
    THEN Selection(endpoints[1].url, endpoints[1], lbIdx)
    ELSE IF r <= cumulative + endpoints[i].weight
         THEN Selection(endpoints[i].url, endpoints[i], lbIdx)
         ELSE WeightedWalk_Inclusive(lbIdx, endpoints, r, i + 1,
                                     cumulative + endpoints[i].weight)

\* lines 758-767: the walk from endpoints[i] on with `cumulative` summed so far
RECURSIVE WeightedWalk(_, _, _, _, _)
WeightedWalk(lbIdx, endpoints, r, i, cumulative) ==
    IF i > Len(endpoints)
    THEN Selection(endpoints[1].url, endpoints[1], lbIdx)
    ELSE IF r < cumulative + endpoints[i].weight
         THEN Selection(endpoints[i].url, endpoints[i], lbIdx)
         ELSE WeightedWalk(lbIdx, endpoints, r, i + 1, cumulative + endpoints[i].weight)

\* weightedSelect that returns the first endpoint when the weights sum to 0
weightedSelect_ZeroTotalFirst(lbIdx, endpoints, draw) ==
    IF Len(endpoints) = 0 THEN Selection("", NoEndpoint, lbIdx)
    ELSE IF TotalWeight(endpoints, Len(endpoints)) = 0
         THEN Selection(endpoints[1].url, endpoints[1], lbIdx)
         ELSE WeightedWalk(lbIdx, endpoints, draw, 1, 0)

\* ServiceRegistry.weightedSelect, its one rand.Intn call having returned `draw`
weightedSelect(lbIdx, endpoints, draw) ==
    IF Len(endpoints) = 0 THEN Selection("", NoEndpoint, lbIdx)
    ELSE IF TotalWeight(endpoints, Len(endpoints)) = 0
         THEN randomSelect(lbIdx, endpoints, draw)
         ELSE WeightedWalk(lbIdx, endpoints, draw, 1, 0)

\* the values the one rand.Intn call of weightedSelect can return
WeightedDraws(endpoints) ==
    IF TotalWeight(endpoints, Len(endpoints)) = 0
    THEN Intn(Len(endpoints))
    ELSE Intn(TotalWeight(endpoints, Len(endpoints)))

\* the values rand.Intn can return inside selectEndpoint(config); {0} stands
\* for the paths that draw nothing
Draws(config) ==
    LET endpoints == GetActiveEndpoints(config) IN
    IF Len(endpoints) = 0 THEN {0}
    ELSE IF config.loadBalanceStrategy = LoadBalanceRandom THEN Intn(Len(endpoints))
    ELSE IF config.loadBalanceStrategy = LoadBalanceWeighted THEN WeightedDraws(endpoints)
    ELSE {0}

\* endpoints[i..] without the endpoints the health table reads as unhealthy
RECURSIVE HealthyFrom(_, _, _, _)
HealthyFrom(table, config, endpoints, i) ==
    IF i > Len(endpoints) THEN <<>>
    ELSE (IF isEndpointHealthy(table, config.tenantID, config.serviceName, endpoints[i].url)
          THEN <<endpoints[i]>> ELSE <<>>)
         \o HealthyFrom(table, config, endpoints, i + 1)

\* selectEndpoint over the candidates that are active and read as healthy
selectEndpoint_HealthFiltered(table, lbIdx, config, draw) ==
    LET endpoints == HealthyFrom(table, config, GetActiveEndpoints(config), 1) IN
    IF Len(endpoints) = 0
    THEN IF config.primaryEndpoint.url # ""
         THEN Selection(config.primaryEndpoint.url, config.primaryEndpoint, lbIdx)
         ELSE Selection(config.defaultServiceURL, NoEndpoint, lbIdx)
    ELSE CASE config.loadBalanceStrategy = LoadBalanceRandom ->
                 randomSelect(lbIdx, endpoints, draw % Len(endpoints))
           [] config.loadBalanceStrategy = LoadBalanceWeighted ->
                 weightedSelect(lbIdx, endpoints, draw % Len(endpoints))
           [] OTHER ->
                 roundRobinSelect(lbIdx, config.tenantID, config.serviceName, endpoints)

\* selectEndpoint whose default branch picks at random
selectEndpoint_DefaultRandom(table, lbIdx, config, draw) ==
    LET endpoints == GetActiveEndpoints(config) IN
    IF Len(endpoints) = 0
    THEN IF config.primaryEndpoint.url # ""
         THEN Selection(config.primaryEndpoint.url, config.primaryEndpoint, lbIdx)
         ELSE Selection(config.defaultServiceURL, NoEndpoint, lbIdx)
    ELSE CASE config.loadBalanceStrategy = LoadBalanceRoundRobin ->
                 roundRobinSelect(lbIdx, config.tenantID, config.serviceName, endpoints)
           [] config.loadBalanceStrategy = LoadBalanceRandom ->
                 randomSelect(lbIdx, endpoints, draw)
           [] config.loadBalanceStrategy = LoadBalanceWeighted ->
                 weightedSelect(lbIdx, endpoints, draw)
           [] OTHER ->
                 randomSelect(lbIdx, endpoints, draw)

\* selectEndpoint that, with no active endpoint, prefers the default URL to
\* the inactive primary
selectEndpoint_DefaultFirst(table, lbIdx, config, draw) ==
    LET endpoints == GetActiveEndpoints(config) IN
    IF Len(endpoints) = 0
    THEN IF config.defaultServiceURL # ""
         THEN Selection(config.defaultServiceURL, NoEndpoint, lbIdx)
         ELSE Selection(config.primaryEndpoint.url, config.primaryEndpoint, lbIdx)
    ELSE CASE config.loadBalanceStrategy = LoadBalanceRandom ->
                 randomSelect(lbIdx, endpoints, draw)
           [] config.loadBalanceStrategy = LoadBalanceWeighted ->
                 weightedSelect(lbIdx, endpoints, draw)
           [] OTHER ->
                 roundRobinSelect(lbIdx, config.tenantID, config.serviceName, endpoints)

\* ServiceRegistry.selectEndpoint on a registry with health table `table` and
\* cursor map `lbIdx`
selectEndpoint(table, lbIdx, config, draw) ==
    LET endpoints == GetActiveEndpoints(config) IN
    IF Len(endpoints) = 0
    THEN IF config.primaryEndpoint.url # ""
         THEN Selection(config.primaryEndpoint.url, config.primaryEndpoint, lbIdx)
         ELSE Selection(config.defaultServiceURL, NoEndpoint, lbIdx)
    ELSE CASE config.loadBalanceStrategy = LoadBalanceRoundRobin ->
                 roundRobinSelect(lbIdx, config.tenantID, config.serviceName, endpoints)
           [] config.loadBalanceStrategy = LoadBalanceRandom ->
                 randomSelect(lbIdx, endpoints, draw)
           [] config.loadBalanceStrategy = LoadBalanceWeighted ->
                 weightedSelect(lbIdx, endpoints, draw)
           [] config.loadBalanceStrategy = LoadBalanceLeastConn ->
                 roundRobinSelect(lbIdx, config.tenantID, config.serviceName, endpoints)
           [] OTHER ->
                 roundRobinSelect(lbIdx, config.tenantID, config.serviceName, endpoints)

\* history record of a call that reads the cursor map or draws a random number
LBCall(op, config, before, lbBefore, draw, result, err) ==
    [op |-> op, tenantID |-> config.tenantID, serviceName |-> config.serviceName,
     url |-> "", healthy |-> FALSE, config |-> config, before |-> before,
     result |-> result, err |-> err, lbBefore |-> lbBefore, draw |-> draw]

\* the call took the round-robin path of selectEndpoint
UsesRoundRobin(config) ==
    /\ Len(GetActiveEndpoints(config)) > 0
    /\ config.loadBalanceStrategy \notin {LoadBalanceRandom, LoadBalanceWeighted}

\* s with only its last n entries
LastN(s, n) == IF Len(s) <= n THEN s ELSE SubSeq(s, Len(s) - n + 1, Len(s))

\* the run of round-robin calls after a selectEndpoint(config) that returned
\* `endpoint`: continued when the key and the candidate list are those of the
\* run, started anew otherwise; the last len(candidates) picks are kept
WindowAfter(w, config, endpoint) ==
    LET key == LBKey(config.tenantID, config.serviceName)
        candidates == GetActiveEndpoints(config)
    IN IF ~UsesRoundRobin(config) THEN NoWindow
       ELSE IF w.key = key /\ w.candidates = candidates
            THEN [w EXCEPT !.picks = LastN(Append(@, endpoint), Len(candidates))]
            ELSE [key |-> key, candidates |-> candidates, picks |-> <<endpoint>>]

SelectEndpointCall(config, draw) ==
    LET r == selectEndpoint(healthStatus, loadBalanceIdx, config, draw) IN
    /\ loadBalanceIdx' = r.loadBalanceIdx
    /\ window' = WindowAfter(window, config, r.endpoint)
    /\ last' = LBCall("selectEndpoint", config, healthStatus, loadBalanceIdx, draw,
                      [url |-> r.url, endpoint |-> r.endpoint], NoError)
    /\ UNCHANGED <<healthStatus, repo, streak, defaults, threadVars, held>>

GetActiveEndpointsCall(config) ==
    /\ last' = LBCall("GetActiveEndpoints", config, healthStatus, loadBalanceIdx, 0,
                      GetActiveEndpoints(config), NoError)
    /\ UNCHANGED <<healthStatus, repo, streak, defaults, loadBalanceIdx, window, threadVars, held>>

\* Longest fallbackChain among the configs handed to selectEndpoint under
\* SpecSelect (every strategy).
MaxSelectChain == 1

\* Longest fallbackChain among the configs handed to selectEndpoint under
\* SpecCycle (round-robin only).
MaxCycleChain == 2

\* the URL of the i-th fallback endpoint of those configs
FallbackURLs == <<"B", "C", "E", "F">>

Strategies ==
    {LoadBalanceRoundRobin, LoadBalanceRandom, LoadBalanceWeighted,
     LoadBalanceLeastConn, "bogus", ""}

\* fallback chains of length n: URL and priority by position, any flags
RECURSIVE FlagChains(_)
FlagChains(n) ==
    IF n = 0 THEN {<<>>}
    ELSE {Append(c, Endpoint(FallbackURLs[n], n, a)) : c \in FlagChains(n - 1), a \in BOOLEAN}

\* the configs handed to selectEndpoint under SpecSelect (every weight is 1):
\* primary A and default D with any flags, and, with every endpoint inactive,
\* also an empty primary URL and an empty default URL
SelectConfigs ==
    {[ServiceConfig("t1", "auth", Endpoint("A", 0, a), c, "D", 0)
         EXCEPT !.loadBalanceStrategy = s] :
        a \in BOOLEAN,
        c \in UNION {FlagChains(n) : n \in 0..MaxSelectChain},
        s \in Strategies}
    \cup
    {[ServiceConfig("t1", "auth", Endpoint(u, 0, FALSE),
                    [i \in 1..n |-> Endpoint(FallbackURLs[i], i, FALSE)], d, 0)
         EXCEPT !.loadBalanceStrategy = s] :
        u \in {"A", ""}, d \in {"", "D"}, n \in 0..MaxSelectChain, s \in Strategies}

InitSelect ==
    /\ healthStatus = <<>>
    /\ repo = <<>>
    /\ streak = <<>>
    /\ last = Call("new", "", "", "", FALSE, NoConfig, <<>>, NoResult, NoError)
    /\ defaults = <<>>
    /\ loadBalanceIdx = <<>>
    /\ window = NoWindow
    /\ Quiescent

NextSelect ==
    \E config \in SelectConfigs : \E draw \in Draws(config) :
        SelectEndpointCall(config, draw)

SpecSelect == InitSelect /\ [][NextSelect]_vars

\* the round-robin configs handed to selectEndpoint and GetActiveEndpoints
\* under SpecCycle: primary A, any chain, any flags
CycleConfigs ==
    {ServiceConfig("t1", "auth", Endpoint("A", 0, a), c, "D", 0) :
        a \in BOOLEAN, c \in UNION {FlagChains(n) : n \in 0..MaxCycleChain}}

NextCycle ==
    \/ \E config \in CycleConfigs : \E draw \in Draws(config) :
          SelectEndpointCall(config, draw)
    \/ \E config \in CycleConfigs : GetActiveEndpointsCall(config)

SpecCycle == InitSelect /\ [][NextCycle]_vars


-----------------------------------------------------------------------------
(* Properties of selectEndpoint and GetActiveEndpoints, checked under
   SpecCycle (C13, C14, C20) and SpecSelect (C15, C18) *)

IsActiveEndpoint(endpoint) == endpoint.isActive

\* the active endpoints of a config in walk order
ActiveInWalkOrder(config) == SelectSeq(WalkOrder(config), IsActiveEndpoint)

\* C13: in a run of round-robin calls on one key over one list of N
\* candidates, the picks of every window of up to N consecutive calls follow
\* the list cyclically from some position, and a window of N calls returns
\* each candidate exactly once.
C13_RoundRobinCycle ==
    window.picks # <<>> =>
        LET n == Len(window.candidates)
            m == Len(window.picks)
        IN /\ m <= n
           /\ \E c \in 0..(n - 1) :
                 \A j \in 1..m : window.picks[j] = window.candidates[((c + j - 1) % n) + 1]
           /\ m = n =>
                 \A i \in 1..n :
                    Cardinality({j \in 1..n : window.picks[j] = window.candidates[i]}) = 1

\* C13 witness: a full window over 3 candidates that started at the second
\* candidate and wrapped around.
C13_Witness ==
    /\ Len(window.candidates) = 3
    /\ Len(window.picks) = 3
    /\ window.picks[1] = window.candidates[2]
    /\ window.picks[3] = window.candidates[1]

\* C14: a round-robin call returns the candidate of the current list at
\* position (cursor before the call) modulo (current length), whatever list
\* the cursor was left by.
C14_CursorModuloCurrentLength ==
    (last.op = "selectEndpoint" /\ ActiveInWalkOrder(last.config) # <<>>) =>
        LET candidates == ActiveInWalkOrder(last.config)
            cursor == CursorOf(last.lbBefore, LBKey(last.tenantID, last.serviceName))
            index == cursor % Len(candidates)
        IN /\ index \in 0..(Len(candidates) - 1)
           /\ last.result.endpoint = candidates[index + 1]
           /\ last.result.url = candidates[index + 1].url

\* C14 witness: the cursor was left at 2 by a longer list and the current
\* list has 2 candidates.
C14_Witness ==
    /\ last.op = "selectEndpoint"
    /\ Len(ActiveInWalkOrder(last.config)) = 2
    /\ CursorOf(last.lbBefore, LBKey(last.tenantID, last.serviceName)) = 2
    /\ last.result.endpoint = ActiveInWalkOrder(last.config)[1]

\* C37: a round-robin selection leaves the cursor of its key in 0..n-1,
\* where n is the number of candidates of that call, and the first selection
\* for a key that has no cursor (read as 0) returns the first candidate; no
\* other call changes a cursor.
C37_CursorInRange ==
    [][IF last'.op = "selectEndpoint" /\ UsesRoundRobin(last'.config)
       THEN LET candidates == GetActiveEndpoints(last'.config)
                key == LBKey(last'.tenantID, last'.serviceName)
            IN /\ key \in DOMAIN loadBalanceIdx'
               /\ loadBalanceIdx'[key] \in 0..(Len(candidates) - 1)
               /\ \A k \in DOMAIN loadBalanceIdx' \ {key} :
                     k \in DOMAIN loadBalanceIdx /\ loadBalanceIdx'[k] = loadBalanceIdx[k]
               /\ key \notin DOMAIN loadBalanceIdx =>
                     /\ CursorOf(loadBalanceIdx, key) = 0
                     /\ last'.result.endpoint = candidates[1]
       ELSE loadBalanceIdx' = loadBalanceIdx]_vars

\* C37 witness: a selection over three candidates on cursor 2 has returned
\* the third candidate and wrapped the cursor to 0.
C37_Witness ==
    /\ last.op = "selectEndpoint"
    /\ Len(GetActiveEndpoints(last.config)) = 3
    /\ CursorOf(last.lbBefore, LBKey(last.tenantID, last.serviceName)) = 2
    /\ last.result.endpoint = GetActiveEndpoints(last.config)[3]
    /\ loadBalanceIdx[LBKey(last.tenantID, last.serviceName)] = 0

\* C20: GetActiveEndpoints returns the endpoints of primary plus
\* fallbackChain whose isActive flag is set, in that order, and nothing else.
C20_ActiveEndpoints ==
    last.op = "GetActiveEndpoints" =>
        /\ last.result = ActiveInWalkOrder(last.config)
        /\ \A i \in 1..Len(last.result) : last.result[i].isActive

\* C20 witness: an inactive primary and two active fallbacks, returned in
\* stored order.
C20_Witness ==
    /\ last.op = "GetActiveEndpoints"
    /\ ~last.config.primaryEndpoint.isActive
    /\ Len(last.config.fallbackChain) = 2
    /\ last.result = last.config.fallbackChain

\* C15: a call with strategy "least-conn", "bogus" or "" returns the endpoint
\* and leaves the cursor that the same call with strategy "round-robin"
\* returns and leaves from the same cursor.
C15_DefaultsToRoundRobin ==
    (last.op = "selectEndpoint"
     /\ last.config.loadBalanceStrategy \in {LoadBalanceLeastConn, "bogus", ""}) =>
        LET rr == selectEndpoint(last.before, last.lbBefore,
                                 [last.config EXCEPT !.loadBalanceStrategy =
                                                         LoadBalanceRoundRobin],
                                 last.draw)
        IN /\ last.result.url = rr.url
           /\ last.result.endpoint = rr.endpoint
           /\ loadBalanceIdx = rr.loadBalanceIdx

\* C15 witness: strategy "bogus", two candidates, cursor 1: the second
\* candidate is returned and the cursor wraps to 0.
C15_Witness ==
    /\ last.op = "selectEndpoint"
    /\ last.config.loadBalanceStrategy = "bogus"
    /\ Len(ActiveInWalkOrder(last.config)) = 2
    /\ CursorOf(last.lbBefore, LBKey(last.tenantID, last.serviceName)) = 1
    /\ last.result.endpoint = ActiveInWalkOrder(last.config)[2]
    /\ CursorOf(loadBalanceIdx, LBKey(last.tenantID, last.serviceName)) = 0

\* C18: with no active endpoint selectEndpoint returns primaryEndpoint.url if
\* non-empty, else defaultServiceUrl (possibly empty), for every strategy,
\* and leaves the cursor map as it was.
C18_NoActiveEndpoint ==
    (last.op = "selectEndpoint" /\ ActiveInWalkOrder(last.config) = <<>>) =>
        /\ last.result.url = IF last.config.primaryEndpoint.url # ""
                             THEN last.config.primaryEndpoint.url
                             ELSE last.config.defaultServiceURL
        /\ loadBalanceIdx = last.lbBefore

\* C18 witness: every endpoint inactive, primary URL empty, default D
\* returned, with a cursor already stored for the key.
C18_Witness ==
    /\ last.op = "selectEndpoint"
    /\ ActiveInWalkOrder(last.config) = <<>>
    /\ last.config.primaryEndpoint.url = ""
    /\ last.result.url = "D"
    /\ LBKey(last.tenantID, last.serviceName) \in DOMAIN last.lbBefore
    /\ last.lbBefore[LBKey(last.tenantID, last.serviceName)] = 1

-----------------------------------------------------------------------------
(* The weighted strategy: selectEndpoint on configs whose endpoints carry
   weights *)

\* the weights of the endpoints under SpecWeighted
Weights == {0, 1, 2}

\* Longest fallbackChain under SpecWeighted.
MaxWeightedChain == 2

\* fallback chains of length n: URL and priority by position, active, any
\* weight of Weights
RECURSIVE WeightedChains(_)
WeightedChains(n) ==
    IF n = 0 THEN {<<>>}
    ELSE {Append(c, [Endpoint(FallbackURLs[n], n, TRUE) EXCEPT !.weight = w]) :
            c \in WeightedChains(n - 1), w \in Weights}

WeightedConfigs ==
    {[ServiceConfig("t1", "auth", [Endpoint("A", 0, a) EXCEPT !.weight = w], c, "D", 0)
         EXCEPT !.loadBalanceStrategy = LoadBalanceWeighted] :
        a \in BOOLEAN, w \in Weights,
        c \in UNION {WeightedChains(n) : n \in 0..MaxWeightedChain}}

NextWeighted ==
    \E config \in WeightedConfigs : \E draw \in Draws(config) :
        SelectEndpointCall(config, draw)

SpecWeighted == InitSelect /\ [][NextWeighted]_vars

\* the sum of the weights of the first i candidates
RECURSIVE Cumulative(_, _)
Cumulative(candidates, i) ==
    IF i = 0 THEN 0 ELSE Cumulative(candidates, i - 1) + candidates[i].weight

\* the last call was a weighted selection over a non-empty candidate list
WeightedSelection ==
    /\ last.op = "selectEndpoint"
    /\ last.config.loadBalanceStrategy = LoadBalanceWeighted
    /\ ActiveInWalkOrder(last.config) # <<>>

\* the endpoint selectEndpoint returns for the last call's pre-state and
\* config when its draw is r and its strategy is `strategy`
PickFor(strategy, r) ==
    selectEndpoint(last.before, last.lbBefore,
                   [last.config EXCEPT !.loadBalanceStrategy = strategy], r).endpoint

\* C16: weighted selection over candidates whose weights sum to 0 returns the
\* candidate at the drawn index; every index in [0, len) is returned for
\* some draw, and the outcomes are those of the random strategy.
C16_ZeroTotalIsRandom ==
    (WeightedSelection
     /\ Cumulative(ActiveInWalkOrder(last.config),
                   Len(ActiveInWalkOrder(last.config))) = 0) =>
        LET candidates == ActiveInWalkOrder(last.config)
            n == Len(candidates)
        IN /\ last.err = NoError
           /\ last.draw \in 0..(n - 1)
           /\ last.result.endpoint = candidates[last.draw + 1]
           /\ last.result.url = candidates[last.draw + 1].url
           /\ \A i \in 0..(n - 1) : PickFor(LoadBalanceWeighted, i) = candidates[i + 1]
           /\ {PickFor(LoadBalanceWeighted, i) : i \in 0..(n - 1)}
                 = {PickFor(LoadBalanceRandom, i) : i \in 0..(n - 1)}

\* C16 witness: three candidates of weight 0 and the last one returned.
C16_Witness ==
    /\ WeightedSelection
    /\ Len(ActiveInWalkOrder(last.config)) = 3
    /\ Cumulative(ActiveInWalkOrder(last.config), 3) = 0
    /\ last.result.endpoint = ActiveInWalkOrder(last.config)[3]

\* C17: weighted selection with total weight T > 0 and draw r in [0, T)
\* returns the first candidate whose cumulative weight exceeds r; candidate i
\* is returned for exactly weight_i of the T draws, a candidate of weight 0
\* for none, and some cumulative weight always exceeds r.
C17_FirstCumulativeAbove ==
    (WeightedSelection
     /\ Cumulative(ActiveInWalkOrder(last.config),
                   Len(ActiveInWalkOrder(last.config))) > 0) =>
        LET candidates == ActiveInWalkOrder(last.config)
            n == Len(candidates)
            total == Cumulative(candidates, n)
            Above(r) == {i \in 1..n : Cumulative(candidates, i) > r}
            First(r) == CHOOSE i \in Above(r) : \A j \in Above(r) : i <= j
        IN /\ last.draw \in 0..(total - 1)
           /\ \A r \in 0..(total - 1) : Above(r) # {}
           /\ last.result.endpoint = candidates[First(last.draw)]
           /\ last.result.url = candidates[First(last.draw)].url
           /\ last.result.endpoint.weight > 0
           /\ \A i \in 1..n :
                 Cardinality({r \in 0..(total - 1) :
                                 PickFor(LoadBalanceWeighted, r) = candidates[i]})
                    = candidates[i].weight

\* C17 witness: weights 0, 2, 1 and draw 2: the third candidate is returned,
\* the weight-0 first candidate is passed over.
C17_Witness ==
    /\ WeightedSelection
    /\ Len(ActiveInWalkOrder(last.config)) = 3
    /\ ActiveInWalkOrder(last.config)[1].weight = 0
    /\ ActiveInWalkOrder(last.config)[2].weight = 2
    /\ ActiveInWalkOrder(last.config)[3].weight = 1
    /\ last.draw = 2
    /\ last.result.endpoint = ActiveInWalkOrder(last.config)[3]

-----------------------------------------------------------------------------
(* GetServiceURL: tenant config, then system default config, then error *)

\* domain.ErrServiceNotFound
ErrServiceNotFound == "service configuration not found"

\* a document of the collection default_service_configs; defaultURL is the
\* field GetServiceURL reads as defaultConfig.DefaultURL
DefaultServiceConfig(serviceName, url) ==
    [serviceName |-> serviceName, defaultURL |-> url]

\* ServiceConfigRepository.FindByTenantAndService; `fails` says that FindOne
\* returns an error other than mongo.ErrNoDocuments
FindByTenantAndService(repoState, tenantID, serviceName, fails) ==
    IF fails
    THEN [found |-> FALSE, config |-> NoConfig, err |-> "failed to find service config"]
    ELSE IF /\ <<tenantID, serviceName>> \in DOMAIN repoState
            /\ repoState[<<tenantID, serviceName>>].isActive
         THEN [found |-> TRUE, config |-> repoState[<<tenantID, serviceName>>],
               err |-> NoError]
         ELSE [found |-> FALSE, config |-> NoConfig, err |-> NoError]

\* ServiceConfigRepository.GetDefaultConfig; `fails` as above
GetDefaultConfig(defaultsState, serviceName, fails) ==
    IF fails
    THEN [found |-> FALSE, config |-> NoConfig, err |-> "failed to find default config"]
    ELSE IF serviceName \in DOMAIN defaultsState
         THEN [found |-> TRUE, config |-> defaultsState[serviceName], err |-> NoError]
         ELSE [found |-> FALSE, config |-> NoConfig, err |-> NoError]

\* what a GetServiceURL call returns and leaves: result, error, the cursor
\* map, and whether GetDefaultConfig was called
Resolution(result, err, lbIdx, consultedDefault) ==
    [result |-> result, err |-> err, loadBalanceIdx |-> lbIdx,
     consultedDefault |-> consultedDefault]

\* lines 658-678 of GetServiceURL: the fallback to the default configuration
DefaultResolution(defaultsState, lbIdx, id, defaultFails) ==
    LET defaultConfig == GetDefaultConfig(defaultsState, id.serviceName, defaultFails) IN
    IF defaultConfig.err # NoError
    THEN Resolution(FallbackChainResult(id, "", NoEndpoint, FALSE, FALSE,
                        "failed to resolve service URL: " \o defaultConfig.err, <<>>),
                    ErrServiceNotFound, lbIdx, TRUE)
    ELSE IF ~defaultConfig.found
    THEN Resolution(FallbackChainResult(id, "", NoEndpoint, FALSE, FALSE,
                        "no configuration found for service", <<>>),
                    ErrServiceNotFound, lbIdx, TRUE)
    ELSE Resolution(FallbackChainResult(id, defaultConfig.config.defaultURL, NoEndpoint,
                        TRUE, TRUE, "", <<>>),
                    NoError, lbIdx, TRUE)

\* GetServiceURL that selects from the stored config whether or not the
\* config is active
GetServiceURL_IgnoresSwitch(table, lbIdx, repoState, defaultsState, tenantID, serviceName, findFails, defaultFails, draw) ==
    LET id == [tenantID |-> tenantID, serviceName |-> serviceName]
        stored == ~findFails /\ <<tenantID, serviceName>> \in DOMAIN repoState
    IN IF stored
       THEN LET sel == selectEndpoint(table, lbIdx, repoState[<<tenantID, serviceName>>], draw) IN
            IF sel.url # ""
            THEN Resolution(FallbackChainResult(id, sel.url, sel.endpoint, FALSE, TRUE,
                                                "", <<>>),
                            NoError, sel.loadBalanceIdx, FALSE)
            ELSE DefaultResolution(defaultsState, sel.loadBalanceIdx, id, defaultFails)
       ELSE DefaultResolution(defaultsState, lbIdx, id, defaultFails)

\* GetServiceURL that takes any selection, also an empty URL, as resolved
GetServiceURL_AnySelection(table, lbIdx, repoState, defaultsState, tenantID, serviceName, findFails, defaultFails, draw) ==
    LET id == [tenantID |-> tenantID, serviceName |-> serviceName]
        found == FindByTenantAndService(repoState, tenantID, serviceName, findFails)
    IN IF found.found /\ found.config.isActive
       THEN LET sel == selectEndpoint(table, lbIdx, found.config, draw) IN
            Resolution(FallbackChainResult(id, sel.url, sel.endpoint, FALSE, TRUE, "", <<>>),
                       NoError, sel.loadBalanceIdx, FALSE)
       ELSE DefaultResolution(defaultsState, lbIdx, id, defaultFails)

\* ServiceRegistry.GetServiceURL on a registry with health table `table` and
\* cursors lbIdx over the collections repoState and defaultsState
GetServiceURL(table, lbIdx, repoState, defaultsState, tenantID, serviceName, findFails, defaultFails, draw) ==
    LET id == [tenantID |-> tenantID, serviceName |-> serviceName]
        found == FindByTenantAndService(repoState, tenantID, serviceName, findFails)
    IN IF found.found /\ found.config.isActive
       THEN LET sel == selectEndpoint(table, lbIdx, found.config, draw) IN
            IF sel.url # ""
            THEN Resolution(FallbackChainResult(id, sel.url, sel.endpoint, FALSE, TRUE,
                                                "", <<>>),
                            NoError, sel.loadBalanceIdx, FALSE)
            ELSE DefaultResolution(defaultsState, sel.loadBalanceIdx, id, defaultFails)
       ELSE DefaultResolution(defaultsState, lbIdx, id, defaultFails)

\* the history record of a GetServiceURL call
URLCall(tenantID, serviceName, before, lbBefore, findFails, defaultFails, draw, r) ==
    [op |-> "GetServiceURL", tenantID |-> tenantID, serviceName |-> serviceName,
     url |-> "", healthy |-> FALSE, config |-> NoConfig, before |-> before,
     result |-> r.result, err |-> r.err, lbBefore |-> lbBefore, draw |-> draw,
     findFails |-> findFails, defaultFails |-> defaultFails,
     consultedDefault |-> r.consultedDefault]

GetServiceURLCall(tenantID, serviceName, findFails, defaultFails, draw) ==
    LET r == GetServiceURL(healthStatus, loadBalanceIdx, repo, defaults,
                           tenantID, serviceName, findFails, defaultFails, draw)
    IN /\ loadBalanceIdx' = r.loadBalanceIdx
       /\ last' = URLCall(tenantID, serviceName, healthStatus, loadBalanceIdx,
                          findFails, defaultFails, draw, r)
       /\ UNCHANGED <<healthStatus, repo, streak, defaults, window, threadVars, held>>

\* the values rand.Intn can return inside GetServiceURL
URLDraws(repoState, tenantID, serviceName, findFails) ==
    LET found == FindByTenantAndService(repoState, tenantID, serviceName, findFails) IN
    IF found.found THEN Draws(found.config) ELSE {0}

\* the stored configs of (t1, auth) under SpecURL: primary A and fallback B
\* with any flags, active or not as a whole, round-robin or random; and
\* configs whose endpoints are all inactive and whose primary URL is empty
URLConfigs ==
    {[ServiceConfig("t1", "auth", Endpoint("A", 0, a), c, "D", 0)
         EXCEPT !.loadBalanceStrategy = s, !.isActive = on] :
        a \in BOOLEAN, c \in {<<>>, <<Endpoint("B", 1, TRUE)>>},
        s \in {LoadBalanceRoundRobin, LoadBalanceRandom}, on \in BOOLEAN}
    \cup
    {ServiceConfig("t1", "auth", Endpoint("", 0, FALSE), <<>>, d, 0) : d \in {"", "D"}}

URLRepos == {<<>>} \cup {[p \in {<<"t1", "auth">>} |-> c] : c \in URLConfigs}

URLDefaults ==
    {<<>>} \cup {[n \in {"auth"} |-> DefaultServiceConfig("auth", u)] : u \in {"S", ""}}

InitURL ==
    /\ healthStatus = <<>>
    /\ repo \in URLRepos
    /\ streak = <<>>
    /\ last = Call("new", "", "", "", FALSE, NoConfig, <<>>, NoResult, NoError)
    /\ defaults \in URLDefaults
    /\ loadBalanceIdx = <<>>
    /\ window = NoWindow
    /\ Quiescent

NextURL ==
    \/ \E findFails \in BOOLEAN, defaultFails \in BOOLEAN :
          \E draw \in URLDraws(repo, "t1", "auth", findFails) :
             GetServiceURLCall("t1", "auth", findFails, defaultFails, draw)
    \/ \E url \in URLs, healthy \in BOOLEAN :
          UpdateHealthStatus("t1", "auth", url, healthy)

SpecURL == InitURL /\ [][NextURL]_vars

-----------------------------------------------------------------------------
(* Properties of GetServiceURL, checked under SpecURL *)

\* the collection holds an active config for the last call's (tenant, service)
ActiveTenantConfig ==
    /\ <<last.tenantID, last.serviceName>> \in DOMAIN repo
    /\ repo[<<last.tenantID, last.serviceName>>].isActive

\* what selectEndpoint yields for that config in the last call's pre-state
TenantSelection ==
    selectEndpoint(last.before, last.lbBefore,
                   repo[<<last.tenantID, last.serviceName>>], last.draw)

SelectionResolves == ActiveTenantConfig /\ TenantSelection.url # ""

DefaultExists == last.serviceName \in DOMAIN defaults

ReturnsSelection ==
    /\ last.err = NoError
    /\ last.result.success
    /\ ~last.result.isDefault
    /\ last.result.resolvedURL = TenantSelection.url
    /\ last.result.usedEndpoint = TenantSelection.endpoint
    /\ ~last.consultedDefault

ReturnsSystemDefault ==
    /\ last.err = NoError
    /\ last.result.success
    /\ last.result.isDefault
    /\ last.result.resolvedURL = defaults[last.serviceName].defaultURL

C12_NotFoundIffNothingConfigured ==
    last.op = "GetServiceURL" =>
        (last.err = ErrServiceNotFound <=> (~ActiveTenantConfig /\ ~DefaultExists))

\* C33: when the stored config of the called (tenant, service) is inactive
\* or does not exist, GetServiceURL returns no endpoint, leaves every
\* round-robin cursor as it was, and returns either the system default's URL
\* as a success with isDefault = true or the NotFound error without success.
C33_KillSwitchHonoured ==
    (last.op = "GetServiceURL" /\ ~ActiveTenantConfig) =>
        /\ last.result.usedEndpoint = NoEndpoint
        /\ loadBalanceIdx = last.lbBefore
        /\ \/ ReturnsSystemDefault
           \/ /\ last.err = ErrServiceNotFound
              /\ ~last.result.success
              /\ last.result.resolvedURL = ""

\* C33 witness: the stored config is inactive, its primary A and fallback B
\* are active endpoints, and the system default S is returned.
C33_Witness ==
    /\ last.op = "GetServiceURL"
    /\ <<"t1", "auth">> \in DOMAIN repo
    /\ ~repo[<<"t1", "auth">>].isActive
    /\ repo[<<"t1", "auth">>].primaryEndpoint.isActive
    /\ Len(repo[<<"t1", "auth">>].fallbackChain) > 0
    /\ ~last.findFails
    /\ last.result.isDefault
    /\ last.result.resolvedURL = "S"

\* health tables that differ from any given one: empty, and one that reads
\* the given URLs as unhealthy
UnhealthyTable(urls) ==
    [k \in {StatusKey("t1", "auth", u) : u \in urls} |->
        NewStatus("t1", "auth", CHOOSE u \in urls : StatusKey("t1", "auth", u) = k, FALSE)]

OtherTables == {EmptyTable} \cup {UnhealthyTable(urls) : urls \in (SUBSET URLs) \ {{}}}

\* C19: the result of GetServiceURL, its error and the cursors it leaves
\* are those of the same call (same configs, cursors, lookup outcomes and
\* draw) on any other health table.
C19_IndependentOfHealth ==
    last.op = "GetServiceURL" =>
        \A table \in OtherTables :
            LET r == GetServiceURL(table, last.lbBefore, repo, defaults,
                                   last.tenantID, last.serviceName,
                                   last.findFails, last.defaultFails, last.draw)
            IN /\ r.result = last.result
               /\ r.err = last.err
               /\ r.loadBalanceIdx = loadBalanceIdx

\* C19 witness: GetServiceURL returns the endpoint A while the health table
\* holds an unhealthy record for it.
C19_Witness ==
    /\ last.op = "GetServiceURL"
    /\ last.result.success
    /\ ~last.result.isDefault
    /\ last.result.resolvedURL = "A"
    /\ StatusKey("t1", "auth", "A") \in DOMAIN last.before
    /\ ~last.before[StatusKey("t1", "auth", "A")].isHealthy

-----------------------------------------------------------------------------
(* GetEndpointByPriority: the active endpoints ordered by priority *)

\* endpoints[i], endpoints[j] = endpoints[j], endpoints[i]
Swap(endpoints, i, j) ==
    [endpoints EXCEPT ![i] = endpoints[j], ![j] = endpoints[i]]

\* lines 522-526: the inner loop for index i, from index j on (1-based)
RECURSIVE InnerLoop(_, _, _)
InnerLoop(endpoints, i, j) ==
    IF j > Len(endpoints) THEN endpoints
    ELSE IF endpoints[j].priority < endpoints[i].priority
         THEN InnerLoop(Swap(endpoints, i, j), i, j + 1)
         ELSE InnerLoop(endpoints, i, j + 1)

\* lines 521-527: the outer loop from index i on (1-based)
RECURSIVE OuterLoop(_, _)
OuterLoop(endpoints, i) ==
    IF i > Len(endpoints) THEN endpoints
    ELSE OuterLoop(InnerLoop(endpoints, i, i + 1), i + 1)

\* ServiceConfig.GetEndpointByPriority
GetEndpointByPriority(config) == OuterLoop(GetActiveEndpoints(config), 1)

GetEndpointByPriorityCall(config) ==
    /\ last' = LBCall("GetEndpointByPriority", config, healthStatus, loadBalanceIdx, 0,
                      GetEndpointByPriority(config), NoError)
    /\ UNCHANGED <<healthStatus, repo, streak, defaults, loadBalanceIdx, window, threadVars, held>>

\* Longest fallbackChain under SpecPriority.
MaxPriorityChain == 2

\* the priorities of the endpoints under SpecPriority
Priorities == {0, 1, 2}

\* fallback chains of length n: URL by position, any flag, any priority
RECURSIVE PriorityChains(_)
PriorityChains(n) ==
    IF n = 0 THEN {<<>>}
    ELSE {Append(c, Endpoint(FallbackURLs[n], p, a)) :
            c \in PriorityChains(n - 1), p \in Priorities, a \in BOOLEAN}

PriorityConfigs ==
    {ServiceConfig("t1", "auth", Endpoint("A", p, a), c, "D", 0) :
        p \in Priorities, a \in BOOLEAN,
        c \in UNION {PriorityChains(n) : n \in 0..MaxPriorityChain}}

NextPriority == \E config \in PriorityConfigs : GetEndpointByPriorityCall(config)

SpecPriority == InitSelect /\ [][NextPriority]_vars

\* the position of endpoint e in the sequence s of distinct endpoints
PositionIn(s, e) == CHOOSE i \in 1..Len(s) : s[i] = e

\* C21: GetEndpointByPriority returns a permutation of GetActiveEndpoints in
\* ascending priority in which endpoints of equal priority keep the relative
\* order they have in GetActiveEndpoints.
C21_StableByPriority ==
    last.op = "GetEndpointByPriority" =>
        LET active == ActiveInWalkOrder(last.config)
            sorted == last.result
        IN /\ Len(sorted) = Len(active)
           /\ {sorted[i] : i \in 1..Len(sorted)} = {active[i] : i \in 1..Len(active)}
           /\ \A a, b \in 1..Len(sorted) :
                 a < b =>
                    \/ sorted[a].priority < sorted[b].priority
                    \/ /\ sorted[a].priority = sorted[b].priority
                       /\ PositionIn(active, sorted[a]) < PositionIn(active, sorted[b])

-----------------------------------------------------------------------------
(* The write path of the collection service_configs. The collection has a
   unique index on (tenantId, serviceName); a document's _id is modelled by
   the key the document is stored under. *)

ErrTenantIDRequired == "tenant_id is required"
ErrServiceNameRequired == "service_name is required"
ErrPrimaryEndpointRequired == "primary_endpoint is required"

\* Validate without the check of the primary endpoint's URL
Validate_SkipsURL(config) ==
    IF config.tenantID = "" THEN ErrTenantIDRequired
    ELSE IF config.serviceName = "" THEN ErrServiceNameRequired
    ELSE NoError

\* ServiceConfig.Validate
Validate(config) ==
    IF config.tenantID = "" THEN ErrTenantIDRequired
    ELSE IF config.serviceName = "" THEN ErrServiceNameRequired
    ELSE IF config.primaryEndpoint.url = "" THEN ErrPrimaryEndpointRequired
    ELSE NoError

\* the collection and the error a write leaves
Written(repoState, err) == [repo |-> repoState, err |-> err]

ConfigKey(config) == <<config.tenantID, config.serviceName>>

\* ServiceConfigRepository.Create; InsertOne fails on a duplicate key
Create(repoState, config) ==
    IF Validate(config) # NoError THEN Written(repoState, Validate(config))
    ELSE IF ConfigKey(config) \in DOMAIN repoState
         THEN Written(repoState, "failed to create service config")
         ELSE Written(MapPut(repoState, ConfigKey(config), config), NoError)

\* ServiceConfigRepository.Update of the document with _id `id`
Update(repoState, id, config) ==
    IF Validate(config) # NoError THEN Written(repoState, Validate(config))
    ELSE IF id \notin DOMAIN repoState THEN Written(repoState, ErrServiceNotFound)
    ELSE IF ConfigKey(config) # id /\ ConfigKey(config) \in DOMAIN repoState
         THEN Written(repoState, "failed to update service config")
         ELSE Written(MapPut(MapDelete(repoState, id), ConfigKey(config), config), NoError)

\* ServiceConfigRepository.Upsert
Upsert(repoState, config) ==
    IF Validate(config) # NoError THEN Written(repoState, Validate(config))
    ELSE Written(MapPut(repoState, ConfigKey(config), config), NoError)

\* ServiceRegistry.CreateOrUpdateServiceConfig
CreateOrUpdateServiceConfig(repoState, config) ==
    IF Validate(config) # NoError THEN Written(repoState, Validate(config))
    ELSE Upsert(repoState, config)

\* ServiceConfigRepository.Delete of the document with _id `id`
Delete(repoState, id) ==
    IF id \notin DOMAIN repoState THEN Written(repoState, ErrServiceNotFound)
    ELSE Written(MapDelete(repoState, id), NoError)

\* ServiceConfigRepository.UpdateEndpointStatus
UpdateEndpointStatus(repoState, tenantID, serviceName, endpointURL, isActive) ==
    IF <<tenantID, serviceName>> \in DOMAIN repoState
    THEN Written([repoState EXCEPT ![<<tenantID, serviceName>>].primaryEndpoint.isActive
                                       = isActive], NoError)
    ELSE Written(repoState, NoError)

\* the history record of a write to the collection
RepoCall(op, id, config, repoBefore, err) ==
    [op |-> op, id |-> id, config |-> config, repoBefore |-> repoBefore, err |-> err]

\* a write `w` made by operation op
RepoWrite(op, id, config, w) ==
    /\ repo' = w.repo
    /\ last' = RepoCall(op, id, config, repo, w.err)
    /\ UNCHANGED <<healthStatus, streak, defaults, loadBalanceIdx, window, threadVars, held>>

\* UpdateEndpointStatus called on the collection; the history record keeps
\* the endpoint URL and the flag it was called with
UpdateEndpointStatusCall(tenantID, serviceName, endpointURL, isActive) ==
    LET w == UpdateEndpointStatus(repo, tenantID, serviceName, endpointURL, isActive) IN
    /\ repo' = w.repo
    /\ last' = RepoCall("UpdateEndpointStatus", <<tenantID, serviceName>>, NoConfig, repo, w.err)
                  @@ [endpointURL |-> endpointURL, isActive |-> isActive]
    /\ UNCHANGED <<healthStatus, streak, defaults, loadBalanceIdx, window, threadVars, held>>

RepoKeys == {<<"t1", "auth">>, <<"t2", "auth">>}

\* the configs handed to the write operations: valid ones and ones with an
\* empty tenantId, serviceName or primary URL
WriteConfigs ==
    {ServiceConfig(t, n, Endpoint(u, 0, TRUE), <<>>, "D", 0) :
        t \in {"t1", "t2", ""}, n \in {"auth", ""}, u \in {"A", ""}}

NextRepo ==
    \/ \E config \in WriteConfigs : RepoWrite("Create", <<>>, config, Create(repo, config))
    \/ \E id \in RepoKeys, config \in WriteConfigs :
          RepoWrite("Update", id, config, Update(repo, id, config))
    \/ \E config \in WriteConfigs : RepoWrite("Upsert", <<>>, config, Upsert(repo, config))
    \/ \E config \in WriteConfigs :
          RepoWrite("CreateOrUpdateServiceConfig", <<>>, config,
                    CreateOrUpdateServiceConfig(repo, config))
    \/ \E id \in RepoKeys : RepoWrite("Delete", id, NoConfig, Delete(repo, id))
    \/ \E k \in RepoKeys, endpointURL \in URLs, isActive \in BOOLEAN :
          UpdateEndpointStatusCall(k[1], k[2], endpointURL, isActive)

SpecRepo == InitSelect /\ [][NextRepo]_vars

\* the URLs of the endpoints of a config
EndpointURLs(config) ==
    {config.primaryEndpoint.url}
    \cup {config.fallbackChain[i].url : i \in 1..Len(config.fallbackChain)}

\* C38: UpdateEndpointStatus called with a URL that is not the primary
\* endpoint's leaves the primary endpoint's isActive flag as it was, and
\* called with a URL that no endpoint of the config has it leaves the stored
\* config as it was.
C38_OnlyNamedEndpointChanges ==
    (last.op = "UpdateEndpointStatus" /\ last.id \in DOMAIN last.repoBefore) =>
        LET before == last.repoBefore[last.id]
            after == repo[last.id]
        IN /\ last.endpointURL # before.primaryEndpoint.url
                 => after.primaryEndpoint.isActive = before.primaryEndpoint.isActive
           /\ last.endpointURL \notin EndpointURLs(before) => after = before

ValidatingWrites == {"Create", "Update", "Upsert", "CreateOrUpdateServiceConfig"}

ValidationErrors ==
    {ErrTenantIDRequired, ErrServiceNameRequired, ErrPrimaryEndpointRequired}

\* C22: Create, Update, Upsert and CreateOrUpdateServiceConfig reject a config
\* with an empty tenantId, serviceName or primaryEndpoint.url with a
\* validation error and leave the collection unchanged; every stored config
\* has the three fields non-empty.
C22_InvalidConfigRejected ==
    /\ (/\ last.op \in ValidatingWrites
        /\ \/ last.config.tenantID = ""
           \/ last.config.serviceName = ""
           \/ last.config.primaryEndpoint.url = "")
          => (last.err \in ValidationErrors /\ repo = last.repoBefore)
    /\ \A k \in DOMAIN repo :
          /\ repo[k].tenantID # ""
          /\ repo[k].serviceName # ""
          /\ repo[k].primaryEndpoint.url # ""

\* C22 witness: CreateOrUpdateServiceConfig of a config whose only defect is
\* the empty primary URL, on a collection holding two configs, is rejected.
C22_Witness ==
    /\ last.op = "CreateOrUpdateServiceConfig"
    /\ last.config.tenantID = "t1"
    /\ last.config.serviceName = "auth"
    /\ last.config.primaryEndpoint.url = ""
    /\ last.err = ErrPrimaryEndpointRequired
    /\ DOMAIN repo = RepoKeys

-----------------------------------------------------------------------------
(* The wire-facing GetServiceURL handler, and resolution over stored data
   that may be invalid (empty URLs) *)

\* pb.GetServiceURLResponse
GetServiceURLResponse(url, isDefault, success, error, attemptedUrls) ==
    [url |-> url, isDefault |-> isDefault, success |-> success, error |-> error,
     attemptedUrls |-> attemptedUrls]

\* TenantServiceServer.GetServiceURL, the registry call having returned r
GetServiceURLHandler(r) ==
    IF r.err # NoError
    THEN GetServiceURLResponse("", FALSE, FALSE, r.err, <<>>)
    ELSE GetServiceURLResponse(r.result.resolvedURL, r.result.isDefault,
                               r.result.success, r.result.error, r.result.attemptedURLs)

GetServiceURLHandlerCall(tenantID, serviceName, findFails, defaultFails, draw) ==
    LET r == GetServiceURL(healthStatus, loadBalanceIdx, repo, defaults,
                           tenantID, serviceName, findFails, defaultFails, draw)
    IN /\ loadBalanceIdx' = r.loadBalanceIdx
       /\ last' = [URLCall(tenantID, serviceName, healthStatus, loadBalanceIdx,
                           findFails, defaultFails, draw, r)
                      EXCEPT !.op = "GetServiceURLHandler"]
                  @@ [response |-> GetServiceURLHandler(r)]
       /\ UNCHANGED <<healthStatus, repo, streak, defaults, window, threadVars, held>>

\* the configs handed to ResolveFallbackChain under SpecTrace: primary and
\* fallback with any flags, URLs and default URL possibly empty
TraceConfigs ==
    {ServiceConfig("t1", "auth", Endpoint(u, 0, a), c, d, 0) :
        u \in {"A", ""}, a \in BOOLEAN,
        c \in {<<>>} \cup {<<Endpoint(v, 1, b)>> : v \in {"B", ""}, b \in BOOLEAN},
        d \in {"", "D"}}

\* the stored configs of (t1, auth) under SpecTrace: none, an active primary
\* A, and configs with no active endpoint and an empty primary URL
TraceRepos ==
    {<<>>}
    \cup {[p \in {<<"t1", "auth">>} |-> c] :
             c \in {ServiceConfig("t1", "auth", Endpoint("A", 0, TRUE), <<>>, "D", 0)}
                   \cup {ServiceConfig("t1", "auth", Endpoint("", 0, FALSE), <<>>, d, 0) :
                            d \in {"", "D"}}}

InitTrace ==
    /\ healthStatus = <<>>
    /\ repo \in TraceRepos
    /\ streak = <<>>
    /\ last = Call("new", "", "", "", FALSE, NoConfig, <<>>, NoResult, NoError)
    /\ defaults \in URLDefaults
    /\ loadBalanceIdx = <<>>
    /\ window = NoWindow
    /\ Quiescent

NextTrace ==
    \/ \E findFails \in BOOLEAN, defaultFails \in BOOLEAN :
          \E draw \in URLDraws(repo, "t1", "auth", findFails) :
             GetServiceURLHandlerCall("t1", "auth", findFails, defaultFails, draw)
    \/ \E config \in TraceConfigs : ResolveFallbackChainCall(config)
    \/ \E healthy \in BOOLEAN : UpdateHealthStatus("t1", "auth", "A", healthy)

SpecTrace == InitTrace /\ [][NextTrace]_vars

-----------------------------------------------------------------------------
(* Properties of the resolution results, checked under SpecTrace (C23, C28)
   and SpecResolve (C27) *)

Resolved == last.op \in {"GetServiceURLHandler", "ResolveFallbackChain"}

\* C23: an error of GetServiceURL or ResolveFallbackChain comes with a result
\* that has success = false and a non-empty error text, no error comes with
\* success = true, and the response of the GetServiceURL handler to a failed
\* resolution carries the result's error text and attempted URLs.
C23_FailureKeepsTrace ==
    /\ Resolved =>
          /\ last.result.tenantID = last.tenantID
          /\ last.err # NoError => (~last.result.success /\ last.result.error # "")
          /\ last.err = NoError => last.result.success
    /\ (last.op = "GetServiceURLHandler" /\ last.err # NoError) =>
          /\ ~last.response.success
          /\ last.response.error = last.result.error
          /\ last.response.attemptedUrls = last.result.attemptedURLs

\* C28: GetServiceURL and ResolveFallbackChain never report success with an
\* empty resolved URL.
C28_NoEmptySuccess ==
    (Resolved /\ last.result.success) => last.result.resolvedURL # ""

\* C31: a successful result of GetServiceURL or ResolveFallbackChain that
\* carries no used endpoint (its URL is a default URL, not an endpoint of the
\* chain) has isDefault = true; isDefault = false comes only with a used
\* endpoint.
C31_DefaultIsMarked ==
    (Resolved /\ last.result.success /\ last.result.usedEndpoint = NoEndpoint)
        => last.result.isDefault

\* C27: an endpoint chosen by ResolveFallbackChain (usedEndpoint set, not the
\* default) is active and read as healthy in the table the call ran on.
C27_ChosenActiveAndHealthy ==
    (last.op = "ResolveFallbackChain" /\ last.result.success /\ ~last.result.isDefault) =>
        /\ last.result.usedEndpoint # NoEndpoint
        /\ last.result.usedEndpoint.isActive
        /\ HealthyInTable(last.before, last.config, last.result.usedEndpoint)

\* C27 witness: the fallback is chosen although the primary is active,
\* because the primary reads unhealthy.
C27_Witness ==
    /\ last.op = "ResolveFallbackChain"
    /\ last.result.success
    /\ ~last.result.isDefault
    /\ last.config.primaryEndpoint.isActive
    /\ ~HealthyInTable(last.before, last.config, last.config.primaryEndpoint)
    /\ Len(last.config.fallbackChain) = 1
    /\ last.result.usedEndpoint = last.config.fallbackChain[1]

-----------------------------------------------------------------------------
(* The GetServiceHealth handler *)

\* ServiceRegistry.GetServiceConfig
GetServiceConfig(repoState, tenantID, serviceName, findFails) ==
    LET found == FindByTenantAndService(repoState, tenantID, serviceName, findFails) IN
    IF found.err # NoError THEN found
    ELSE IF ~found.found THEN [found EXCEPT !.err = ErrServiceNotFound]
    ELSE found

\* time.Time.Format(time.RFC3339)
FormatRFC3339(t) == IF t = Zero THEN "0001-01-01T00:00:00Z" ELSE "<" \o t \o ">"

\* TenantServiceServer.toProtoServiceHealth
toProtoServiceHealth(status) ==
    [endpointUrl |-> status.endpointURL,
     isHealthy |-> status.isHealthy,
     lastChecked |-> FormatRFC3339(status.lastChecked),
     lastSuccessful |-> FormatRFC3339(status.lastSuccessful),
     lastFailure |-> FormatRFC3339(status.lastFailure),
     consecutiveFails |-> status.consecutiveFails,
     lastError |-> status.lastError]

\* lines 238-241: the entries of the fallback chain
ChainHealths(table, tenantID, serviceName, chain) ==
    [i \in 1..Len(chain) |->
        toProtoServiceHealth(GetHealthStatus(table, tenantID, serviceName, chain[i].url))]

\* GetServiceHealth that reports the endpoints whose flag is set only
GetServiceHealth_ActiveOnly(table, repoState, tenantID, serviceName, findFails) ==
    LET config == GetServiceConfig(repoState, tenantID, serviceName, findFails) IN
    IF config.err # NoError THEN [healths |-> <<>>, err |-> config.err]
    ELSE [healths |-> ChainHealths(table, tenantID, serviceName,
                                   GetActiveEndpoints(config.config)),
          err |-> NoError]

\* TenantServiceServer.GetServiceHealth: the response's Healths and the error
GetServiceHealth(table, repoState, tenantID, serviceName, findFails) ==
    LET config == GetServiceConfig(repoState, tenantID, serviceName, findFails) IN
    IF config.err # NoError THEN [healths |-> <<>>, err |-> config.err]
    ELSE [healths |->
             <<toProtoServiceHealth(GetHealthStatus(table, tenantID, serviceName,
                                                    config.config.primaryEndpoint.url))>>
             \o ChainHealths(table, tenantID, serviceName, config.config.fallbackChain),
          err |-> NoError]

GetServiceHealthCall(tenantID, serviceName, findFails) ==
    LET r == GetServiceHealth(healthStatus, repo, tenantID, serviceName, findFails) IN
    /\ last' = [op |-> "GetServiceHealth", tenantID |-> tenantID,
                serviceName |-> serviceName, findFails |-> findFails,
                before |-> healthStatus, result |-> r.healths, err |-> r.err]
    /\ UNCHANGED <<healthStatus, repo, streak, defaults, loadBalanceIdx, window, threadVars, held>>

\* the stored configs of (t1, auth) under SpecHealthView: none, or primary A
\* with a chain of 0..2 fallbacks, any flags, active or not as a whole
HealthViewRepos ==
    {<<>>}
    \cup {[p \in {<<"t1", "auth">>} |->
             [ServiceConfig("t1", "auth", Endpoint("A", 0, a), c, "D", 0)
                 EXCEPT !.isActive = on]] :
            a \in BOOLEAN, on \in BOOLEAN,
            c \in {<<>>, <<Endpoint("B", 1, FALSE)>>,
                   <<Endpoint("B", 1, TRUE), Endpoint("C", 2, TRUE)>>}}

InitHealthView ==
    /\ healthStatus = <<>>
    /\ repo \in HealthViewRepos
    /\ streak = <<>>
    /\ last = Call("new", "", "", "", FALSE, NoConfig, <<>>, NoResult, NoError)
    /\ defaults = <<>>
    /\ loadBalanceIdx = <<>>
    /\ window = NoWindow
    /\ Quiescent

NextHealthView ==
    \/ \E findFails \in BOOLEAN : GetServiceHealthCall("t1", "auth", findFails)
    \/ \E url \in URLs, healthy \in BOOLEAN :
          UpdateHealthStatus("t1", "auth", url, healthy)

SpecHealthView == InitHealthView /\ [][NextHealthView]_vars

\* the entries GetServiceHealth owes for config on the table `table`: one per
\* endpoint of primary plus fallbackChain, in stored order, with the
\* endpoint's URL and the health the table holds for it (healthy if none)
OwedHealths(table, config) ==
    LET endpoints == WalkOrder(config) IN
    /\ last.err = NoError
    /\ Len(last.result) = 1 + Len(config.fallbackChain)
    /\ \A i \in 1..Len(endpoints) :
          LET key == StatusKey(config.tenantID, config.serviceName, endpoints[i].url) IN
          /\ last.result[i].endpointUrl = endpoints[i].url
          /\ key \notin DOMAIN table =>
                (last.result[i].isHealthy /\ last.result[i].consecutiveFails = 0)
          /\ key \in DOMAIN table =>
                /\ last.result[i].isHealthy = table[key].isHealthy
                /\ last.result[i].consecutiveFails = table[key].consecutiveFails

-----------------------------------------------------------------------------
(* Every registry operation on one registry: which of them change the
   health table and the cursors *)

\* the config stored for (t1, auth) and handed to ResolveFallbackChain under
\* SpecFrame: round-robin over primary A and fallback B
FrameConfig ==
    ServiceConfig("t1", "auth", Endpoint("A", 0, TRUE), <<Endpoint("B", 1, TRUE)>>, "D", 0)

InitFrame ==
    /\ healthStatus = <<>>
    /\ repo = [p \in {<<"t1", "auth">>} |-> FrameConfig]
    /\ streak = <<>>
    /\ last = Call("new", "", "", "", FALSE, NoConfig, <<>>, NoResult, NoError)
    /\ defaults = <<>>
    /\ loadBalanceIdx = <<>>
    /\ window = NoWindow
    /\ Quiescent

NextFrame ==
    \/ \E k \in ResolveTriples, healthy \in BOOLEAN :
          UpdateHealthStatus(k[1], k[2], k[3], healthy)
    \/ \E k \in ResolveTriples : InvalidateCache(k[1], k[2], k[3])
    \/ InvalidateAllCache
    \/ \E k \in ResolveTriples : IsEndpointHealthyCall(k[1], k[2], k[3])
    \/ \E k \in ResolveTriples : GetHealthStatusCall(k[1], k[2], k[3])
    \/ GetAllHealthStatusCall
    \/ ResolveFallbackChainCall(FrameConfig)
    \/ \E findFails \in BOOLEAN, defaultFails \in BOOLEAN :
          GetServiceURLCall("t1", "auth", findFails, defaultFails, 0)

SpecFrame == InitFrame /\ [][NextFrame]_vars

HealthWriters == {"UpdateHealthStatus", "InvalidateCache", "InvalidateAllCache"}

\* C30: a step changes the health table only if it is an UpdateHealthStatus,
\* InvalidateCache or InvalidateAllCache call; GetServiceURL,
\* ResolveFallbackChain, isEndpointHealthy, GetHealthStatus and
\* GetAllHealthStatus leave it as it is, and ResolveFallbackChain leaves the
\* round-robin cursors as they are.
C30_OnlyWritersChangeTable ==
    [][/\ healthStatus' # healthStatus => last'.op \in HealthWriters
       /\ last'.op \in {"GetServiceURL", "ResolveFallbackChain", "isEndpointHealthy",
                        "GetHealthStatus", "GetAllHealthStatus"}
             => healthStatus' = healthStatus
       /\ last'.op = "ResolveFallbackChain" => loadBalanceIdx' = loadBalanceIdx]_vars

\* C30 witness: GetHealthStatus was called for a key without a record on a
\* table that holds another record, with a cursor stored, and the key still
\* has no record.
C30_Witness ==
    /\ last.op = "GetHealthStatus"
    /\ last.before # <<>>
    /\ loadBalanceIdx # <<>>
    /\ StatusKey(last.tenantID, last.serviceName, last.url) \notin DOMAIN last.before
    /\ StatusKey(last.tenantID, last.serviceName, last.url) \notin DOMAIN healthStatus

\* the call is a success report or an invalidation for the triple, or an
\* invalidation of the whole table
RecoveredBy(call, triple) ==
    \/ call.op = "InvalidateAllCache"
    \/ /\ <<call.tenantID, call.serviceName, call.url>> = triple
       /\ \/ call.op = "InvalidateCache"
          \/ call.op = "UpdateHealthStatus" /\ call.healthy

\* C36: an endpoint that reads unhealthy reads unhealthy after every call
\* (GetServiceURL, ResolveFallbackChain, the readers, reports and
\* invalidations for other endpoints, further failure reports for it) except
\* a success report or an invalidation for it or an invalidation of the
\* whole table, and after one of these it reads healthy.
C36_NoRecoveryWithoutReset ==
    [][\A k \in ResolveTriples :
          ~isEndpointHealthy(healthStatus, k[1], k[2], k[3])
             => (isEndpointHealthy(healthStatus', k[1], k[2], k[3]) <=> RecoveredBy(last', k))]_vars

\* C36 witness: ResolveFallbackChain has run on a table where A, unhealthy
\* after MaxFails failure reports, is still unhealthy, and has moved on to B.
C36_Witness ==
    /\ last.op = "ResolveFallbackChain"
    /\ StatusKey("t1", "auth", "A") \in DOMAIN healthStatus
    /\ healthStatus[StatusKey("t1", "auth", "A")].consecutiveFails = MaxFails
    /\ ~isEndpointHealthy(healthStatus, "t1", "auth", "A")
    /\ last.result.resolvedURL = "B"

-----------------------------------------------------------------------------
(* Callers that keep and modify the values GetHealthStatus and
   GetAllHealthStatus returned *)

\* Most values the callers hold at once.
MaxHeld == 2

\* a caller keeps the pointer GetHealthStatus returned
GetHealthStatusKept(tenantID, serviceName, url) ==
    /\ Len(held) < MaxHeld
    /\ held' = Append(held, GetHealthStatusRef(healthStatus, tenantID, serviceName, url))
    /\ last' = Call("GetHealthStatus", tenantID, serviceName, url, FALSE,
                    NoConfig, healthStatus,
                    GetHealthStatus(healthStatus, tenantID, serviceName, url), NoError)
    /\ UNCHANGED <<healthStatus, repo, streak, defaults, loadBalanceIdx, window, threadVars>>

\* a caller keeps the pointers GetAllHealthStatus returned
GetAllHealthStatusKept ==
    /\ \E order \in Orders(DOMAIN healthStatus) :
          /\ Len(held) + Len(order) <= MaxHeld
          /\ Len(order) > 0
          /\ held' = held \o GetAllHealthStatusRefs(healthStatus, order)
          /\ last' = Call("GetAllHealthStatus", "", "", "", FALSE, NoConfig, healthStatus,
                          GetAllHealthStatus(healthStatus, order), NoError)
    /\ UNCHANGED <<healthStatus, repo, streak, defaults, loadBalanceIdx, window, threadVars>>

\* a caller writes to the i-th value it holds; the write reaches the table
\* record and every other held value that share its storage
CallerModifies(i) ==
    LET edited == [held[i].value EXCEPT !.isHealthy = ~@, !.lastError = "edited"]
        key == held[i].sharesWith
    IN /\ held[i].value.lastError # "edited"
       /\ held' = [j \in 1..Len(held) |->
                     IF j = i \/ (key # NoKey /\ held[j].sharesWith = key)
                     THEN Ref(edited, held[j].sharesWith) ELSE held[j]]
       /\ healthStatus' = IF key # NoKey THEN [healthStatus EXCEPT ![key] = edited]
                          ELSE healthStatus
       /\ last' = Call("CallerModifies", "", "", "", FALSE, NoConfig, healthStatus,
                       NoResult, NoError)
       /\ UNCHANGED <<repo, streak, defaults, loadBalanceIdx, window, threadVars>>

NextCopies ==
    \/ GetHealthStatusKept("t1", "auth", "A")
    \/ GetAllHealthStatusKept
    \/ \E i \in 1..Len(held) : CallerModifies(i)
    \/ \E healthy \in BOOLEAN : UpdateHealthStatus("t1", "auth", "A", healthy)
    \/ InvalidateCache("t1", "auth", "A")
    \/ InvalidateAllCache

SpecCopies == InitSelect /\ [][NextCopies]_vars

\* C26: a caller's write to a value GetHealthStatus or GetAllHealthStatus
\* returned leaves the health table as it is, and UpdateHealthStatus,
\* InvalidateCache and InvalidateAllCache leave every returned value as it is.
C26_ReturnedValuesAreCopies ==
    [][/\ last'.op = "CallerModifies" => healthStatus' = healthStatus
       /\ last'.op \in HealthWriters => held' = held]_vars

\* C26 witness: a value returned for a key with a record is still as it was
\* returned after a later failure report changed the record.
C26_Witness ==
    /\ last.op = "UpdateHealthStatus"
    /\ Len(held) > 0
    /\ StatusKey("t1", "auth", held[1].value.endpointURL) \in DOMAIN last.before
    /\ held[1].value = last.before[StatusKey("t1", "auth", held[1].value.endpointURL)]
    /\ held[1].value # healthStatus[StatusKey("t1", "auth", held[1].value.endpointURL)]

-----------------------------------------------------------------------------
(* Goroutines inside the health-table methods, statement by statement.
   Every goroutine runs one call on the endpoint (t1, auth, A). *)

Goroutines == {"g1", "g2", "g3"}

HealthReaders == {"isEndpointHealthy", "GetHealthStatus"}

\* the calls the goroutines make
HealthCalls ==
    {[op |-> "UpdateHealthStatus", healthy |-> h] : h \in BOOLEAN}
    \cup {[op |-> o, healthy |-> FALSE] : o \in (HealthWriters \ {"UpdateHealthStatus"}) \cup HealthReaders}

\* the Go zero value of a domain.ServiceStatus
ZeroStatus ==
    [tenantID |-> "", serviceName |-> "", endpointURL |-> "",
     isHealthy |-> FALSE, lastChecked |-> Zero, lastSuccessful |-> Zero,
     lastFailure |-> Zero, consecutiveFails |-> 0, lastError |-> ""]

\* a goroutine about to enter its method: its arguments, its position, and
\* its locals (exists; the operand of ConsecutiveFails++; the return values)
Entering(call) ==
    [op |-> call.op, healthy |-> call.healthy, pc |-> "start",
     exists |-> FALSE, count |-> 0, ok |-> FALSE, statusCopy |-> ZeroStatus]

ThreadKey == StatusKey("t1", "auth", "A")

\* the health tables the goroutines start on: no record, a healthy record,
\* a record after one failure report
ThreadTables ==
    {EmptyTable,
     UpdateHealthTable(EmptyTable, "t1", "auth", "A", TRUE),
     UpdateHealthTable(UpdateHealthTable(EmptyTable, "t1", "auth", "A", TRUE),
                       "t1", "auth", "A", FALSE)}

InitThreads ==
    /\ healthStatus \in ThreadTables
    /\ repo = <<>>
    /\ streak = <<>>
    /\ last = Call("new", "", "", "", FALSE, NoConfig, healthStatus, NoResult, NoError)
    /\ defaults = <<>>
    /\ loadBalanceIdx = <<>>
    /\ window = NoWindow
    /\ threads \in [Goroutines -> {Entering(c) : c \in HealthCalls}]
    /\ statusMutex = Unlocked
    /\ lbMutex = NoThread
    /\ committed = {healthStatus}
    /\ held = <<>>

\* a sync.RWMutex that lets every Lock through
CanLock_Always(mutex) == TRUE

\* statusMutex.Lock() returns: nobody holds the mutex
CanLock(mutex) == mutex.writer = NoThread /\ mutex.readers = {}

\* statusMutex.RLock() returns: no writer holds the mutex
CanRLock(mutex) == mutex.writer = NoThread

\* the record `status` points to
Stored(table) == IF ThreadKey \in DOMAIN table THEN table[ThreadKey] ELSE ZeroStatus

\* status.field = value through the pointer read from the map
WriteField(table, field, value) ==
    IF ThreadKey \in DOMAIN table THEN [table EXCEPT ![ThreadKey][field] = value]
    ELSE table

At(t, op, pc) == threads[t].op = op /\ threads[t].pc = pc

Goto(t, pc) == [threads EXCEPT ![t].pc = pc]

ThreadFrame == UNCHANGED <<repo, streak, last, defaults, loadBalanceIdx, window, lbMutex, held>>

\* s.statusMutex.Lock()
Lock(t) ==
    /\ threads[t].pc = "start"
    /\ threads[t].op \in HealthWriters
    /\ CanLock(statusMutex)
    /\ statusMutex' = [statusMutex EXCEPT !.writer = t]
    /\ threads' = Goto(t, CASE threads[t].op = "UpdateHealthStatus" -> "lookup"
                            [] threads[t].op = "InvalidateCache" -> "delete"
                            [] OTHER -> "clear")
    /\ UNCHANGED <<healthStatus, committed>>
    /\ ThreadFrame

\* s.statusMutex.RLock()
RLock(t) ==
    /\ threads[t].pc = "start"
    /\ threads[t].op \in HealthReaders
    /\ CanRLock(statusMutex)
    /\ statusMutex' = [statusMutex EXCEPT !.readers = @ \cup {t}]
    /\ threads' = Goto(t, "lookup")
    /\ UNCHANGED <<healthStatus, committed>>
    /\ ThreadFrame

\* status, exists := s.healthStatus[key], and the return of a reader that
\* finds no record
Lookup(t) ==
    LET exists == ThreadKey \in DOMAIN healthStatus
        op == threads[t].op
    IN /\ threads[t].pc = "lookup"
       /\ threads' =
            [threads EXCEPT
               ![t].exists = exists,
               ![t].ok = IF op = "isEndpointHealthy" /\ ~exists THEN TRUE ELSE @,
               ![t].statusCopy = IF op = "GetHealthStatus" /\ ~exists
                                 THEN GetHealthStatus(EmptyTable, "t1", "auth", "A") ELSE @,
               ![t].pc = CASE op = "UpdateHealthStatus" -> IF exists THEN "stamp" ELSE "create"
                           [] op = "isEndpointHealthy" -> IF exists THEN "read" ELSE "runlock"
                           [] OTHER -> IF exists THEN "copy" ELSE "runlock"]
       /\ UNCHANGED <<healthStatus, statusMutex, committed>>
       /\ ThreadFrame

\* s.healthStatus[key] = &domain.ServiceStatus{...}; return
CreateRecord(t) ==
    /\ At(t, "UpdateHealthStatus", "create")
    /\ healthStatus' = MapPut(healthStatus, ThreadKey,
                              NewStatus("t1", "auth", "A", threads[t].healthy))
    /\ threads' = Goto(t, "unlock")
    /\ UNCHANGED <<statusMutex, committed>>
    /\ ThreadFrame

\* status.LastChecked = time.Now()
StampChecked(t) ==
    /\ At(t, "UpdateHealthStatus", "stamp")
    /\ healthStatus' = WriteField(healthStatus, "lastChecked", Stamped)
    /\ threads' = Goto(t, IF threads[t].healthy THEN "setHealthy" ELSE "readCount")
    /\ UNCHANGED <<statusMutex, committed>>
    /\ ThreadFrame

\* status.IsHealthy = true
SetHealthy(t) ==
    /\ At(t, "UpdateHealthStatus", "setHealthy")
    /\ healthStatus' = WriteField(healthStatus, "isHealthy", TRUE)
    /\ threads' = Goto(t, "resetCount")
    /\ UNCHANGED <<statusMutex, committed>>
    /\ ThreadFrame

\* status.ConsecutiveFails = 0
ResetCount(t) ==
    /\ At(t, "UpdateHealthStatus", "resetCount")
    /\ healthStatus' = WriteField(healthStatus, "consecutiveFails", 0)
    /\ threads' = Goto(t, "stampSuccess")
    /\ UNCHANGED <<statusMutex, committed>>
    /\ ThreadFrame

\* status.LastSuccessful = time.Now()
StampSuccess(t) ==
    /\ At(t, "UpdateHealthStatus", "stampSuccess")
    /\ healthStatus' = WriteField(healthStatus, "lastSuccessful", Stamped)
    /\ threads' = Goto(t, "unlock")
    /\ UNCHANGED <<statusMutex, committed>>
    /\ ThreadFrame

\* status.ConsecutiveFails++ : the load
ReadCount(t) ==
    /\ At(t, "UpdateHealthStatus", "readCount")
    /\ threads' = [threads EXCEPT ![t].count = Stored(healthStatus).consecutiveFails,
                                  ![t].pc = "writeCount"]
    /\ UNCHANGED <<healthStatus, statusMutex, committed>>
    /\ ThreadFrame

\* status.ConsecutiveFails++ : the store
WriteCount(t) ==
    /\ At(t, "UpdateHealthStatus", "writeCount")
    /\ healthStatus' = WriteField(healthStatus, "consecutiveFails", threads[t].count + 1)
    /\ threads' = Goto(t, "stampFailure")
    /\ UNCHANGED <<statusMutex, committed>>
    /\ ThreadFrame

\* status.LastFailure = time.Now()
StampFailure(t) ==
    /\ At(t, "UpdateHealthStatus", "stampFailure")
    /\ healthStatus' = WriteField(healthStatus, "lastFailure", Stamped)
    /\ threads' = Goto(t, "setError")
    /\ UNCHANGED <<statusMutex, committed>>
    /\ ThreadFrame

\* status.LastError = "health check failed"
SetError(t) ==
    /\ At(t, "UpdateHealthStatus", "setError")
    /\ healthStatus' = WriteField(healthStatus, "lastError", "health check failed")
    /\ threads' = Goto(t, "threshold")
    /\ UNCHANGED <<statusMutex, committed>>
    /\ ThreadFrame

\* if status.ConsecutiveFails >= 3 { status.IsHealthy = false }
Threshold(t) ==
    /\ At(t, "UpdateHealthStatus", "threshold")
    /\ healthStatus' = IF Stored(healthStatus).consecutiveFails >= UnhealthyAfter
                       THEN WriteField(healthStatus, "isHealthy", FALSE)
                       ELSE healthStatus
    /\ threads' = Goto(t, "unlock")
    /\ UNCHANGED <<statusMutex, committed>>
    /\ ThreadFrame

\* delete(s.healthStatus, key)
DeleteRecord(t) ==
    /\ At(t, "InvalidateCache", "delete")
    /\ healthStatus' = InvalidatedTable(healthStatus, "t1", "auth", "A")
    /\ threads' = Goto(t, "unlock")
    /\ UNCHANGED <<statusMutex, committed>>
    /\ ThreadFrame

\* s.healthStatus = make(map[string]*domain.ServiceStatus)
ClearTable(t) ==
    /\ At(t, "InvalidateAllCache", "clear")
    /\ healthStatus' = EmptyTable
    /\ threads' = Goto(t, "unlock")
    /\ UNCHANGED <<statusMutex, committed>>
    /\ ThreadFrame

\* the deferred s.statusMutex.Unlock()
Unlock(t) ==
    /\ threads[t].pc = "unlock"
    /\ statusMutex' = [statusMutex EXCEPT !.writer = IF @ = t THEN NoThread ELSE @]
    /\ committed' = committed \cup {healthStatus}
    /\ threads' = Goto(t, "done")
    /\ UNCHANGED healthStatus
    /\ ThreadFrame

\* return status.IsHealthy
ReadHealthy(t) ==
    /\ At(t, "isEndpointHealthy", "read")
    /\ threads' = [threads EXCEPT ![t].ok = Stored(healthStatus).isHealthy,
                                  ![t].pc = "runlock"]
    /\ UNCHANGED <<healthStatus, statusMutex, committed>>
    /\ ThreadFrame

\* statusCopy := *status : the first words of the struct
CopyHead(t) ==
    /\ At(t, "GetHealthStatus", "copy")
    /\ threads' = [threads EXCEPT
                     ![t].statusCopy =
                        [Stored(healthStatus) EXCEPT
                           !.lastFailure = Zero, !.consecutiveFails = 0, !.lastError = ""],
                     ![t].pc = "copyRest"]
    /\ UNCHANGED <<healthStatus, statusMutex, committed>>
    /\ ThreadFrame

\* statusCopy := *status : the remaining words
CopyRest(t) ==
    /\ At(t, "GetHealthStatus", "copyRest")
    /\ threads' = [threads EXCEPT
                     ![t].statusCopy =
                        [@ EXCEPT !.lastFailure = Stored(healthStatus).lastFailure,
                                  !.consecutiveFails = Stored(healthStatus).consecutiveFails,
                                  !.lastError = Stored(healthStatus).lastError],
                     ![t].pc = "runlock"]
    /\ UNCHANGED <<healthStatus, statusMutex, committed>>
    /\ ThreadFrame

\* the deferred s.statusMutex.RUnlock()
RUnlock(t) ==
    /\ threads[t].pc = "runlock"
    /\ statusMutex' = [statusMutex EXCEPT !.readers = @ \ {t}]
    /\ threads' = Goto(t, "done")
    /\ UNCHANGED <<healthStatus, committed>>
    /\ ThreadFrame

NextThreads ==
    \E t \in Goroutines :
        \/ Lock(t)
        \/ RLock(t)
        \/ Lookup(t)
        \/ CreateRecord(t)
        \/ StampChecked(t)
        \/ SetHealthy(t)
        \/ ResetCount(t)
        \/ StampSuccess(t)
        \/ ReadCount(t)
        \/ WriteCount(t)
        \/ StampFailure(t)
        \/ SetError(t)
        \/ Threshold(t)
        \/ DeleteRecord(t)
        \/ ClearTable(t)
        \/ Unlock(t)
        \/ ReadHealthy(t)
        \/ CopyHead(t)
        \/ CopyRest(t)
        \/ RUnlock(t)

SpecThreads == InitThreads /\ [][NextThreads]_vars

\* the table a call leaves when it runs alone
TableAfterCall(table, call) ==
    CASE call.op = "UpdateHealthStatus" ->
            UpdateHealthTable(table, "t1", "auth", "A", call.healthy)
      [] call.op = "InvalidateCache" -> InvalidatedTable(table, "t1", "auth", "A")
      [] call.op = "InvalidateAllCache" -> EmptyTable
      [] OTHER -> table

\* what a reader returned is what it returns when it runs alone on `table`
ReturnsAsOn(table, call) ==
    /\ call.op = "isEndpointHealthy" => call.ok = isEndpointHealthy(table, "t1", "auth", "A")
    /\ call.op = "GetHealthStatus" =>
          call.statusCopy = GetHealthStatus(table, "t1", "auth", "A")

\* some order of the calls of `pending`, run one after the other from
\* `table`, gives every reader its return value and ends on `final`
RECURSIVE Serial(_, _, _)
Serial(table, pending, final) ==
    IF pending = {} THEN table = final
    ELSE \E t \in pending :
            /\ ReturnsAsOn(table, threads[t])
            /\ Serial(TableAfterCall(table, threads[t]), pending \ {t}, final)

AllDone == \A t \in Goroutines : threads[t].pc = "done"

FailureReports ==
    {t \in Goroutines : threads[t].op = "UpdateHealthStatus" /\ ~threads[t].healthy}

\* C24: when the concurrent calls have returned, the health table and the
\* readers' return values are those of some serial order of the calls; K
\* concurrent failure reports on an existing record (and nothing else
\* writing) raise consecutiveFails by exactly K; and whatever a reader has
\* returned is what it returns on a table some writer left.
C24_CallsAreAtomic ==
    /\ AllDone => Serial(last.before, Goroutines, healthStatus)
    /\ (/\ AllDone
        /\ ThreadKey \in DOMAIN last.before
        /\ \A t \in Goroutines : threads[t].op \in HealthWriters => t \in FailureReports)
       => healthStatus[ThreadKey].consecutiveFails
             = last.before[ThreadKey].consecutiveFails + Cardinality(FailureReports)
    /\ \A t \in Goroutines :
          threads[t].pc = "done" => \E table \in committed : ReturnsAsOn(table, threads[t])

\* C24 witness: three concurrent failure reports on an existing record with
\* no failures have returned and the record counts three and is unhealthy.
C24_Witness ==
    /\ AllDone
    /\ FailureReports = Goroutines
    /\ ThreadKey \in DOMAIN last.before
    /\ last.before[ThreadKey].consecutiveFails = 0
    /\ healthStatus[ThreadKey].consecutiveFails = Cardinality(Goroutines)
    /\ ~healthStatus[ThreadKey].isHealthy

-----------------------------------------------------------------------------
(* Goroutines inside roundRobinSelect, statement by statement: as many
   concurrent calls for (t1, auth) as the candidate list is long. *)

\* the candidate lists of the concurrent selections
CursorLists ==
    {<<Endpoint("A", 0, TRUE), Endpoint("B", 1, TRUE)>>,
     <<Endpoint("A", 0, TRUE), Endpoint("B", 1, TRUE), Endpoint("C", 2, TRUE)>>}

CursorKey == LBKey("t1", "auth")

\* the goroutines that select from a list of n candidates
Selectors(n) == {g \in Goroutines : \E i \in 1..n : g = <<"g1", "g2", "g3">>[i]}

\* a goroutine about to enter roundRobinSelect with a non-empty list: its
\* position and its locals idx and endpoint
EnteringSelect == [op |-> "roundRobinSelect", pc |-> "start", idx |-> 0, endpoint |-> NoEndpoint]

\* the cursor maps the selections start on: no cursor for the key, or any
\* value earlier calls can have left, one past the last index included
InitCursorThreads ==
    /\ healthStatus = <<>>
    /\ repo = <<>>
    /\ streak = <<>>
    /\ defaults = <<>>
    /\ \E endpoints \in CursorLists :
          /\ window = [key |-> CursorKey, candidates |-> endpoints, picks |-> <<>>]
          /\ threads = [g \in Selectors(Len(endpoints)) |-> EnteringSelect]
          /\ loadBalanceIdx \in {<<>>} \cup {MapPut(<<>>, CursorKey, c) : c \in 0..Len(endpoints)}
    /\ last = [op |-> "new", loadBalanceIdx |-> loadBalanceIdx]
    /\ statusMutex = Unlocked
    /\ lbMutex = NoThread
    /\ committed = {}
    /\ held = <<>>

\* a sync.Mutex that lets every Lock through
CanLockCursor_Always(holder) == TRUE

\* lbMutex.Lock() returns: nobody holds the mutex
CanLockCursor(holder) == holder = NoThread

CursorFrame ==
    UNCHANGED <<healthStatus, repo, streak, last, defaults, window, statusMutex, committed, held>>

\* s.lbMutex.Lock()
LockCursor(t) ==
    /\ threads[t].pc = "start"
    /\ CanLockCursor(lbMutex)
    /\ lbMutex' = t
    /\ threads' = Goto(t, "read")
    /\ UNCHANGED loadBalanceIdx
    /\ CursorFrame

\* idx := s.loadBalanceIdx[key]
ReadCursor(t) ==
    /\ threads[t].pc = "read"
    /\ threads' = [threads EXCEPT ![t].idx = CursorOf(loadBalanceIdx, CursorKey),
                                  ![t].pc = "pick"]
    /\ UNCHANGED <<loadBalanceIdx, lbMutex>>
    /\ CursorFrame

\* endpoint := endpoints[idx%len(endpoints)]
PickEndpoint(t) ==
    /\ threads[t].pc = "pick"
    /\ threads' = [threads EXCEPT
                     ![t].endpoint =
                        window.candidates[(threads[t].idx % Len(window.candidates)) + 1],
                     ![t].pc = "advance"]
    /\ UNCHANGED <<loadBalanceIdx, lbMutex>>
    /\ CursorFrame

\* s.loadBalanceIdx[key] = (idx + 1) % len(endpoints)
AdvanceCursor(t) ==
    /\ threads[t].pc = "advance"
    /\ loadBalanceIdx' = MapPut(loadBalanceIdx, CursorKey,
                                (threads[t].idx + 1) % Len(window.candidates))
    /\ threads' = Goto(t, "unlock")
    /\ UNCHANGED lbMutex
    /\ CursorFrame

\* the deferred s.lbMutex.Unlock(), and return endpoint.URL, endpoint
UnlockCursor(t) ==
    /\ threads[t].pc = "unlock"
    /\ lbMutex' = IF lbMutex = t THEN NoThread ELSE lbMutex
    /\ threads' = Goto(t, "done")
    /\ UNCHANGED loadBalanceIdx
    /\ CursorFrame

NextCursorThreads ==
    \E t \in DOMAIN threads :
        \/ LockCursor(t)
        \/ ReadCursor(t)
        \/ PickEndpoint(t)
        \/ AdvanceCursor(t)
        \/ UnlockCursor(t)

SpecCursorThreads == InitCursorThreads /\ [][NextCursorThreads]_vars

\* the goroutine has executed idx := s.loadBalanceIdx[key]
HasReadCursor(t) == threads[t].pc \in {"pick", "advance", "unlock", "done"}

AllReturned == \A t \in DOMAIN threads : threads[t].pc = "done"

\* C25: no two of the concurrent round-robin calls for one key read the same
\* cursor value, and when the N calls over N candidates have returned they
\* have returned N distinct candidates and the cursor is the starting cursor
\* plus N, modulo N.
C25_ReadAndAdvanceAtomic ==
    /\ \A t, u \in DOMAIN threads :
          t # u /\ HasReadCursor(t) /\ HasReadCursor(u) => threads[t].idx # threads[u].idx
    /\ AllReturned =>
          /\ Cardinality({threads[t].endpoint.url : t \in DOMAIN threads})
                = Len(window.candidates)
          /\ CursorOf(loadBalanceIdx, CursorKey)
                = (CursorOf(last.loadBalanceIdx, CursorKey) + Len(window.candidates))
                     % Len(window.candidates)

\* C25 witness: three concurrent calls over three candidates, started on
\* cursor 1, have returned A, B and C and the cursor is 1 again.
C25_Witness ==
    /\ AllReturned
    /\ Len(window.candidates) = Cardinality(Goroutines)
    /\ CursorOf(last.loadBalanceIdx, CursorKey) = 1
    /\ {threads[t].endpoint.url : t \in DOMAIN threads} = {"A", "B", "C"}
    /\ CursorOf(loadBalanceIdx, CursorKey) = 1

-----------------------------------------------------------------------------
(* Keys of the health table and of the cursor map, built by fmt.Sprintf
   from identifiers that may contain ':' *)

\* (tenantId, serviceName) pairs, two of them with a ':' in an identifier
KeyPairs == {<<"t1", "auth">>, <<"t1", "auth:v2">>, <<"t1:auth", "v2">>}

\* the endpoints whose health is reported and read under SpecKeys: endpoint A
\* of the two pairs with a ':' in an identifier
KeyTriples == {<<p[1], p[2], "A">> : p \in KeyPairs \ {<<"t1", "auth">>}}

\* the round-robin configs of the pairs: candidates A and B
KeyConfigs ==
    {ServiceConfig(p[1], p[2], Endpoint("A", 0, TRUE), <<Endpoint("B", 1, TRUE)>>, "D", 0) :
        p \in KeyPairs}

NextKeys ==
    \/ \E triple \in KeyTriples, healthy \in BOOLEAN :
          UpdateHealthStatus(triple[1], triple[2], triple[3], healthy)
    \/ \E triple \in KeyTriples : InvalidateCache(triple[1], triple[2], triple[3])
    \/ \E config \in KeyConfigs : SelectEndpointCall(config, 0)

SpecKeys == InitSelect /\ [][NextKeys]_vars

\* what the two readers return for a triple
ReadsOf(table, triple) ==
    [healthy |-> isEndpointHealthy(table, triple[1], triple[2], triple[3]),
     status |-> GetHealthStatus(table, triple[1], triple[2], triple[3])]

\* C32: a report or an invalidation for one (tenantId, serviceName, url)
\* leaves what isEndpointHealthy and GetHealthStatus return for every other
\* tuple as it was, and a round-robin selection for one (tenantId,
\* serviceName) leaves the cursor of every other pair as it was; identifiers
\* may contain ':'.
C32_DistinctKeysIndependent ==
    /\ last.op \in {"UpdateHealthStatus", "InvalidateCache"} =>
          \A triple \in KeyTriples :
             triple # <<last.tenantID, last.serviceName, last.url>>
                => ReadsOf(healthStatus, triple) = ReadsOf(last.before, triple)
    /\ last.op = "selectEndpoint" =>
          \A p \in KeyPairs :
             p # <<last.tenantID, last.serviceName>>
                => CursorOf(loadBalanceIdx, LBKey(p[1], p[2]))
                      = CursorOf(last.lbBefore, LBKey(p[1], p[2]))

-----------------------------------------------------------------------------
(* The locks the registry methods take, method by method: each goroutine
   runs one call; what the call does to the tables between Lock and Unlock
   is left to SpecThreads and SpecCursorThreads. *)

\* the methods that take statusMutex.Lock, statusMutex.RLock, and the
\* resolve calls: GetServiceURL reaches lbMutex through roundRobinSelect,
\* ResolveFallbackChain reaches statusMutex.RLock through isEndpointHealthy
LockWriters == HealthWriters
LockReaders == HealthReaders \cup {"GetAllHealthStatus"}
LockCalls == LockWriters \cup LockReaders \cup {"GetServiceURL", "ResolveFallbackChain"}

\* a goroutine about to enter `op`; `left` counts the endpoints
\* ResolveFallbackChain can still test: the primary and one fallback
EnteringCall(op) ==
    [op |-> op, pc |-> "start", left |-> IF op = "ResolveFallbackChain" THEN 2 ELSE 0]

InitLocks ==
    /\ healthStatus = <<>>
    /\ repo = <<>>
    /\ streak = <<>>
    /\ last = Call("new", "", "", "", FALSE, NoConfig, <<>>, NoResult, NoError)
    /\ defaults = <<>>
    /\ loadBalanceIdx = <<>>
    /\ window = NoWindow
    /\ threads \in [Goroutines -> {EnteringCall(op) : op \in LockCalls}]
    /\ statusMutex = Unlocked
    /\ lbMutex = NoThread
    /\ committed = {}
    /\ held = <<>>

LockFrame ==
    UNCHANGED <<healthStatus, repo, streak, last, defaults, loadBalanceIdx, window,
                committed, held>>

\* a goroutine is blocked in statusMutex.Lock(): sync.RWMutex lets no new
\* reader in while a writer waits
WriterWaiting == \E t \in DOMAIN threads : threads[t].pc = "lockWait"

\* a return that leaves statusMutex locked
StatusUnlock_Skipped(mutex, t) == mutex

\* the deferred s.statusMutex.Unlock()
StatusUnlock(mutex, t) == [mutex EXCEPT !.writer = NoThread]

\* s.statusMutex.Lock() is called
CallLock(t) ==
    /\ threads[t].pc = "start"
    /\ threads[t].op \in LockWriters
    /\ threads' = Goto(t, "lockWait")
    /\ UNCHANGED <<statusMutex, lbMutex>>
    /\ LockFrame

\* s.statusMutex.Lock() returns
EnterWrite(t) ==
    /\ threads[t].pc = "lockWait"
    /\ CanLock(statusMutex)
    /\ statusMutex' = [statusMutex EXCEPT !.writer = t]
    /\ threads' = Goto(t, "writing")
    /\ UNCHANGED lbMutex
    /\ LockFrame

\* the body of a writer, the deferred Unlock, and its return
LeaveWrite(t) ==
    /\ threads[t].pc = "writing"
    /\ statusMutex' = StatusUnlock(statusMutex, t)
    /\ threads' = Goto(t, "done")
    /\ UNCHANGED lbMutex
    /\ LockFrame

\* s.statusMutex.RLock() of a reader, or of the isEndpointHealthy call
\* ResolveFallbackChain makes for its next endpoint
EnterRead(t) ==
    /\ threads[t].pc = "start"
    /\ threads[t].op \in LockReaders \cup {"ResolveFallbackChain"}
    /\ CanRLock(statusMutex)
    /\ ~WriterWaiting
    /\ statusMutex' = [statusMutex EXCEPT !.readers = @ \cup {t}]
    /\ threads' = Goto(t, "reading")
    /\ UNCHANGED lbMutex
    /\ LockFrame

\* the body of a reader and the deferred RUnlock; ResolveFallbackChain
\* returns (usable == TRUE, or no endpoint is left) or goes on to the next
LeaveRead(t) ==
    /\ threads[t].pc = "reading"
    /\ statusMutex' = [statusMutex EXCEPT !.readers = @ \ {t}]
    /\ \E usable \in BOOLEAN :
          threads' = IF threads[t].op = "ResolveFallbackChain" /\ ~usable /\ threads[t].left > 1
                     THEN [threads EXCEPT ![t].pc = "start", ![t].left = @ - 1]
                     ELSE Goto(t, "done")
    /\ UNCHANGED lbMutex
    /\ LockFrame

\* GetServiceURL returns without roundRobinSelect: no active tenant config,
\* no active endpoint, or the random or weighted strategy
ReturnUnlocked(t) ==
    /\ threads[t].pc = "start"
    /\ threads[t].op = "GetServiceURL"
    /\ threads' = Goto(t, "done")
    /\ UNCHANGED <<statusMutex, lbMutex>>
    /\ LockFrame

\* s.lbMutex.Lock() of the roundRobinSelect GetServiceURL reaches
EnterSelect(t) ==
    /\ threads[t].pc = "start"
    /\ threads[t].op = "GetServiceURL"
    /\ CanLockCursor(lbMutex)
    /\ lbMutex' = t
    /\ threads' = Goto(t, "selecting")
    /\ UNCHANGED statusMutex
    /\ LockFrame

\* the body of roundRobinSelect, the deferred s.lbMutex.Unlock(), and the
\* return of GetServiceURL
LeaveSelect(t) ==
    /\ threads[t].pc = "selecting"
    /\ lbMutex' = NoThread
    /\ threads' = Goto(t, "done")
    /\ UNCHANGED statusMutex
    /\ LockFrame

NextLocks ==
    \E t \in Goroutines :
        \/ CallLock(t)
        \/ EnterWrite(t)
        \/ LeaveWrite(t)
        \/ EnterRead(t)
        \/ LeaveRead(t)
        \/ ReturnUnlocked(t)
        \/ EnterSelect(t)
        \/ LeaveSelect(t)

\* the scheduler runs some goroutine that is not blocked
SpecLocks == InitLocks /\ [][NextLocks]_vars /\ WF_vars(NextLocks)

HoldsStatus(t) == statusMutex.writer = t \/ t \in statusMutex.readers

HoldsCursor(t) == lbMutex = t

\* no goroutine holds both mutexes, and a goroutine that has returned holds
\* neither
LockDiscipline ==
    \A t \in Goroutines :
        /\ ~(HoldsStatus(t) /\ HoldsCursor(t))
        /\ threads[t].pc = "done" => (~HoldsStatus(t) /\ ~HoldsCursor(t))

EveryCallReturned == \A t \in Goroutines : threads[t].pc = "done"

\* C34: no call holds statusMutex and lbMutex at the same time, a call that
\* has returned holds neither, and under every interleaving of concurrent
\* resolve, report, read and invalidate calls every call returns.
C34_NoDeadlock == []LockDiscipline /\ <>EveryCallReturned

\* C34 witness: a GetServiceURL call is inside roundRobinSelect holding
\* lbMutex while a report holds statusMutex and a third call waits for it.
C34_Witness ==
    /\ \E t \in Goroutines : HoldsCursor(t) /\ threads[t].op = "GetServiceURL"
    /\ \E t \in Goroutines : statusMutex.writer = t /\ threads[t].op = "UpdateHealthStatus"
    /\ \E t \in Goroutines : threads[t].pc = "start" /\ threads[t].op = "ResolveFallbackChain"

=============================================================================
